---- MODULE Spec2Model ----
(***************************************************************************)
(* The workflow canvas of Grok_X_Ads: the node/edge store held by          *)
(* WorkflowCanvas (React state `nodes`, `edges`), the controller callbacks *)
(* that mutate it, and the asynchronous creative-generation call of        *)
(* handleBrandStyleConfirmed.                                              *)
(*                                                                         *)
(* Ids are the code's template strings, kept as tuples of their dash-      *)
(* separated parts so that String.startsWith is computable:                *)
(*   'brandStyle' = <<"brandStyle">>, `image-${i}` = <<"image", i>>,       *)
(*   `preview-${nodeId}` = <<"preview">> \o nodeId,                        *)
(*   `e-${nodeId}-prev` = <<"e">> \o nodeId \o <<"prev">>.                 *)
(*                                                                         *)
(* One action is one synchronous run of a handler (up to its await, or     *)
(* from the resumption of its await to its end): the state updates a       *)
(* handler queues in one run are committed together by React before the    *)
(* next render.                                                            *)
(*                                                                         *)
(* The callbacks are invoked by the node components, which offer them only *)
(* while their buttons are enabled (ProductUrlCanSubmit, ...); the         *)
(* BrandStyle node may confirm at any time, also while a call is in        *)
(* flight.  The user may drag the brandStyle node (onNodesChange).         *)
(*                                                                         *)
(* Specifications:                                                         *)
(*   Spec        the canvas driven through the node components' buttons;   *)
(*   SpecDirect  the controller's callbacks invoked directly, with any     *)
(*               argument and in any state;                                *)
(*   SpecAge     the two copies of the age-range conversion, applied to    *)
(*               every age_range;                                          *)
(*   SpecFeed    buildDisplayFeed applied to every content sequence;       *)
(*   SpecMerge   buildDisplayFeed called with an adInterval argument;      *)
(*   SpecRedeliver  the canvas without dragging, with the events of the    *)
(*               first two steps delivered a second time in succession;    *)
(*   SpecPreview one mounted PreviewNode: its status, the feed load and    *)
(*               the autoscroll loop;                                      *)
(*   SpecLoad    the feed load of that PreviewNode alone, every awaited    *)
(*               promise settling (weak fairness);                         *)
(*   SpecSubmit  the ProductUrlNode: its fields, its submit button and the *)
(*               demographics request.                                     *)
(***************************************************************************)
EXTENDS Integers, Sequences, FiniteSets, TLC

\* ------------------------------------------------------------ bounds
\* how many generation requests are issued in one session
MaxRequests == 2
\* the largest number of images a generation response holds
MaxImages == 2
\* how many Preview nodes are created in one session
MaxPreviews == 1

\* the largest age bound of a demographics age_range
MaxAge == 12
\* the largest number of content items handed to buildDisplayFeed
MaxTweets == 8

\* ------------------------------------------------------------ constants
PRIMARY_ROW_Y == 200
PREVIEW_COUNT == 10
AD_INTERVAL == 3
\* the spacing handleBrandStyleConfirmed passes to centeredOffsets
FanSpacing == 480

Null == "null"
NoImage == <<>>

\* demographics payloads delivered by the inference service / the confirm form
DemoPayloads == {"demoA"}
\* what the user confirms: the received demographics, or an edited form
ConfirmPayloads == {"demoA", "demoB"}
\* brand styles the BrandStyle node confirms
StylePayloads == {"styleA"}
\* vertical positions the user can drag the BrandStyle node to
DragYs == {320}

VARIABLES
  nodes,                 \* useNodesState: the list of node records
  edges,                 \* useEdgesState: the list of edge records
  demographicsData,      \* useState(null)
  confirmedDemographics, \* useState(null)
  brandStyleData,        \* useState(null)
  isGeneratingImages,    \* useState(false)
  closureBrandY,         \* position.y of brandStyle in the `nodes` array that the
                         \* current handleBrandStyleConfirmed closure captured
  calls,                 \* the generation calls issued so far, in issue order, each
                         \* with the closure it runs in and, as history, the
                         \* brandStyle status before it and how it ended
  lastApplied,           \* history: the call whose fan-out was applied last (0: none)
                         \* and the number of images it held
  age_range,             \* the age_range of the demographics a generation request is built from
  controllerAgeRangeStr, \* ageRangeStr as handleBrandStyleConfirmed computes it
  generateAgeRangeStr,   \* ageRangeStr as GenerateNode.handleGenerate computes it
  feedItems,             \* PreviewNode useState([]): the content items loaded
  displayFeed,           \* PreviewNode useMemo: buildDisplayFeed(feedItems, imageUrl)
  adIntervalArg,         \* the adInterval a caller of buildDisplayFeed passed, if any
  mounted,               \* the PreviewNode instance is mounted
  statusClass,           \* PreviewNode: data.status || 'pending'
  loading,               \* PreviewNode useState(true)
  error,                 \* PreviewNode useState(null)
  loads,                 \* the runs of loadFeed, in start order: where each run is
                         \* and the `cancelled` flag of its effect closure
  currentLoad,           \* the run whose closure the load effect's cleanup holds (0: none)
  loops,                 \* the autoscroll loops, in start order: the start timeout,
                         \* the animation frame and the clocks of each
  currentLoop,           \* the loop whose closure the autoscroll effect's cleanup
                         \* holds (0: the effect returned without starting one)
  scrollPosition,        \* scrollPositionRef.current, in tenths of a pixel
  singleFeedHeight,      \* the singleFeedHeight the last tick read, same unit
  productUrl,            \* ProductUrlNode: useState(data.productUrl || ''), a string
                         \* as the sequence of its characters
  prompt,                \* useState(data.prompt || '')
  isLoading,             \* useState(false)
  submitError,           \* useState(null): the error the node shows
  requests               \* the demographics requests issued so far, each with the
                         \* body it carried and, as history, how it ended

\* the state of the canvas
canvasVars == <<nodes, edges, demographicsData, confirmedDemographics, brandStyleData,
                isGeneratingImages, closureBrandY, calls, lastApplied>>
\* the state the node components hold and the requests they build
ageVars == <<age_range, controllerAgeRangeStr, generateAgeRangeStr>>
feedVars == <<feedItems, displayFeed, adIntervalArg>>
previewVars == <<mounted, statusClass, loading, error, loads, currentLoad, loops, currentLoop,
                 scrollPosition, singleFeedHeight>>
nodeVars == <<ageVars, feedVars, previewVars>>
\* the state the ProductUrlNode component holds
formVars == <<productUrl, prompt, isLoading, submitError, requests>>

vars == <<nodes, edges, demographicsData, confirmedDemographics, brandStyleData,
          isGeneratingImages, closureBrandY, calls, lastApplied,
          age_range, controllerAgeRangeStr, generateAgeRangeStr, feedItems, displayFeed,
          adIntervalArg, mounted, statusClass, loading, error, loads, currentLoad, loops,
          currentLoop, scrollPosition, singleFeedHeight,
          productUrl, prompt, isLoading, submitError, requests>>

\* A JavaScript value that may be null is a sequence of length 0 (null) or 1.
JsNull == <<>>
Some(v) == <<v>>
\* a value that has not been computed yet; a computed value v is held as <<v>>
NotRun == <<>>

\* ------------------------------------------------------------ helpers
\* String.prototype.startsWith(prefix + '-') on an id
StartsWith(id, prefix) == Len(id) > 1 /\ id[1] = prefix

Range(s) == {s[i] : i \in 1..Len(s)}

Node(id, type, x, y, status, centerOffset, imageUrl) ==
  [id |-> id, type |-> type, position |-> [x |-> x, y |-> y], status |-> status,
   centerOffset |-> centerOffset, demographics |-> Null,
   confirmedDemographics |-> Null, imageUrl |-> imageUrl]

activeEdgeStyle == "url(#edge-gradient)"
defaultEdgeStyle == "#ffffff"

makeEdge(id, source, target, curved, animated, style, color) ==
  [id |-> id, source |-> source, target |-> target,
   type |-> IF curved THEN "smoothstep" ELSE "straight",
   animated |-> animated, style |-> style, color |-> color]

initialNodes ==
  << Node(<<"productUrl">>, "productUrl", 50, PRIMARY_ROW_Y, "active", 0, NoImage),
     Node(<<"demographics">>, "demographics", 500, PRIMARY_ROW_Y, "pending", 0, NoImage),
     Node(<<"brandStyle">>, "brandStyle", 950, PRIMARY_ROW_Y, "pending", 0, NoImage) >>

\* an initial edge list whose first edge is created with the default style
initialEdgesDefaultStyle ==
  << makeEdge(<<"e1-2">>, <<"productUrl">>, <<"demographics">>, FALSE, FALSE,
              defaultEdgeStyle, "#cfd0d2"),
     makeEdge(<<"e2-3">>, <<"demographics">>, <<"brandStyle">>, FALSE, FALSE,
              defaultEdgeStyle, "#cfd0d2") >>

initialEdges ==
  << makeEdge(<<"e1-2">>, <<"productUrl">>, <<"demographics">>, FALSE, FALSE,
              activeEdgeStyle, "#ffffff"),
     makeEdge(<<"e2-3">>, <<"demographics">>, <<"brandStyle">>, FALSE, FALSE,
              defaultEdgeStyle, "#cfd0d2") >>

\* nds.find(n => n.id === id): the first node with that id, as a set of 0 or 1
FindNode(nds, id) ==
  LET hits == {i \in 1..Len(nds) : nds[i].id = id}
  IN IF hits = {} THEN {} ELSE {nds[CHOOSE i \in hits : \A j \in hits : i <= j]}

HasNode(nds, id) == \E i \in 1..Len(nds) : nds[i].id = id

StatusOf(nds, id) == (CHOOSE n \in FindNode(nds, id) : TRUE).status

updateNodeStatus(nds, nodeId, status) ==
  [i \in 1..Len(nds) |->
     IF nds[i].id = nodeId THEN [nds[i] EXCEPT !.status = status] ELSE nds[i]]

updateEdgeStatus(eds, edgeId, isActive) ==
  [i \in 1..Len(eds) |->
     IF eds[i].id = edgeId
       THEN [eds[i] EXCEPT !.animated = FALSE,
                           !.style = IF isActive THEN activeEdgeStyle ELSE defaultEdgeStyle,
                           !.color = "#ffffff"]
       ELSE eds[i]]

canvasInit ==
  /\ nodes = initialNodes
  /\ edges = initialEdges
  /\ demographicsData = Null
  /\ confirmedDemographics = Null
  /\ brandStyleData = Null
  /\ isGeneratingImages = FALSE
  /\ closureBrandY = PRIMARY_ROW_Y
  /\ calls = <<>>
  /\ lastApplied = [call |-> 0, n |-> 0]

\* the node components before any of them has rendered or built a request
\* no generation request is being built
ageIdle ==
  /\ age_range = JsNull
  /\ controllerAgeRangeStr = NotRun
  /\ generateAgeRangeStr = NotRun

\* no Preview node is mounted
previewIdle ==
  /\ mounted = FALSE
  /\ statusClass = "pending"
  /\ loading = TRUE
  /\ error = JsNull
  /\ loads = <<>>
  /\ currentLoad = 0
  /\ loops = <<>>
  /\ currentLoop = 0
  /\ scrollPosition = 0
  /\ singleFeedHeight = 0

\* the ProductUrlNode as it is mounted: empty fields, no request
formIdle ==
  /\ productUrl = <<>>
  /\ prompt = <<>>
  /\ isLoading = FALSE
  /\ submitError = JsNull
  /\ requests = <<>>

nodeInit ==
  /\ ageIdle
  /\ feedItems = <<>>
  /\ displayFeed = NotRun
  /\ adIntervalArg = JsNull
  /\ previewIdle
  /\ formIdle

Init == canvasInit /\ nodeInit

\* ------------------------------------------------------------ the node components
\* a submit button that stays enabled while a request is under way
ProductUrlCanSubmitWhileLoading == StatusOf(nodes, <<"productUrl">>) # "completed"

\* ProductUrlNode: the submit button is disabled while a request is under way
\* and once the node is completed
ProductUrlCanSubmit == ~(isLoading \/ StatusOf(nodes, <<"productUrl">>) = "completed")

\* a confirm button that is never disabled
DemographicsConfirmAlwaysEnabled == TRUE

\* DemographicsNode: the confirm button is disabled while pending and once completed
DemographicsCanConfirm == StatusOf(nodes, <<"demographics">>) = "active"

\* BrandStyleNode: confirmation may be invoked again, also while a call is in flight
BrandStyleCanConfirm == TRUE

\* ImageNode: the preview button is rendered when the node holds an image
ImageCanPreview(n) == n.imageUrl # NoImage

\* PreviewNode: the complete button is rendered when it holds an image and is not pending
PreviewCanComplete(n) == n.imageUrl # NoImage /\ n.status # "pending"

\* ------------------------------------------------------------ transitions
handleDemographicsReceived(data) ==
  /\ demographicsData' = data
  /\ nodes' = [i \in 1..Len(nodes) |->
                 LET n == updateNodeStatus(nodes, <<"productUrl">>, "completed")[i]
                 IN IF n.id = <<"demographics">>
                      THEN [n EXCEPT !.status = "active", !.demographics = data]
                      ELSE n]
  /\ edges' = updateEdgeStatus(edges, <<"e2-3">>, TRUE)
  /\ UNCHANGED <<confirmedDemographics, brandStyleData, isGeneratingImages,
                 closureBrandY, calls, lastApplied, nodeVars>>

\* position.y of the brandStyle node in a `nodes` array
BrandY(nds) == (CHOOSE n \in FindNode(nds, <<"brandStyle">>) : TRUE).position.y

handleDemographicsConfirmed(data) ==
  /\ confirmedDemographics' = data
  /\ nodes' = [i \in 1..Len(nodes) |->
                 LET n == updateNodeStatus(nodes, <<"demographics">>, "completed")[i]
                 IN IF n.id = <<"brandStyle">>
                      THEN [n EXCEPT !.status = "active", !.confirmedDemographics = data]
                      ELSE n]
  /\ edges' = updateEdgeStatus(edges, <<"e3-4">>, TRUE)
  \* confirmedDemographics is a dependency of handleBrandStyleConfirmed: the
  \* callback is created anew in the next render and captures that render's nodes
  /\ closureBrandY' = BrandY(nodes)
  /\ UNCHANGED <<demographicsData, brandStyleData, isGeneratingImages, calls,
                 lastApplied, nodeVars>>

\* onNodesChange: the user drags the brandStyle node to another height
DragBrandStyle(y) ==
  /\ y # BrandY(nodes)
  /\ nodes' = [i \in 1..Len(nodes) |->
                 IF nodes[i].id = <<"brandStyle">>
                   THEN [nodes[i] EXCEPT !.position.y = y] ELSE nodes[i]]
  /\ UNCHANGED <<edges, demographicsData, confirmedDemographics, brandStyleData,
                 isGeneratingImages, closureBrandY, calls, lastApplied, nodeVars>>

centeredOffsets(count, spacing) ==
  IF count <= 1 THEN <<0>>
  ELSE [i \in 1..count |-> ((2 * (i - 1) - (count - 1)) * spacing) \div 2]

\* an entry that marks brandStyle completed before the request is answered
handleBrandStyleConfirmedCompletesEarly(data) ==
  /\ brandStyleData' = data
  /\ nodes' = updateNodeStatus(nodes, <<"brandStyle">>, "completed")
  /\ IF confirmedDemographics = Null
       THEN /\ isGeneratingImages' = FALSE
            /\ calls' = calls
       ELSE /\ Len(calls) < MaxRequests
            /\ isGeneratingImages' = TRUE
            /\ calls' = Append(calls,
                 [state |-> "inflight", baseY |-> closureBrandY,
                  pre |-> StatusOf(nodes, <<"brandStyle">>),
                  demographics |-> confirmedDemographics, style |-> data])
  /\ UNCHANGED <<edges, demographicsData, confirmedDemographics, closureBrandY,
                 lastApplied, nodeVars>>

\* handleBrandStyleConfirmed from its invocation to the await of fetch
handleBrandStyleConfirmed(data) ==
  /\ brandStyleData' = data
  /\ nodes' = updateNodeStatus(nodes, <<"brandStyle">>, "active")
  /\ IF confirmedDemographics = Null
       THEN /\ isGeneratingImages' = FALSE
            /\ calls' = calls
       ELSE /\ Len(calls) < MaxRequests
            /\ isGeneratingImages' = TRUE
            /\ calls' = Append(calls,
                 [state |-> "inflight", baseY |-> closureBrandY,
                  pre |-> StatusOf(nodes, <<"brandStyle">>),
                  demographics |-> confirmedDemographics, style |-> data])
  /\ UNCHANGED <<edges, demographicsData, confirmedDemographics, closureBrandY,
                 lastApplied, nodeVars>>

\* the responses the generation service can give to call c: up to MaxImages
\* images, or a body without an images list
Results(c) ==
  {[hasImages |-> TRUE, images |-> [i \in 1..n |-> <<c, i - 1>>], image_url |-> NoImage] :
      n \in 0..MaxImages}
  \cup {[hasImages |-> FALSE, images |-> <<>>, image_url |-> <<c, 0>>]}

\* result.images || [{ image_url: result.image_url }]
ImagesOf(result) == IF result.hasImages THEN result.images ELSE <<result.image_url>>

\* a loop that gives every sibling the id of the first
NewImageNodesSameId(images, baseY) ==
  LET offsets == centeredOffsets(Len(images), FanSpacing)
  IN [i \in 1..Len(images) |->
        Node(<<"image", 0>>, "imageResult", 1400, baseY + offsets[i], "active",
             offsets[i], images[i])]

NewImageNodes(images, baseY) ==
  LET offsets == centeredOffsets(Len(images), FanSpacing)
  IN [i \in 1..Len(images) |->
        Node(<<"image", i - 1>>, "imageResult", 1400, baseY + offsets[i], "active",
             offsets[i], images[i])]

\* a loop that stops one branch short
NewImageEdgesOffByOne(images) ==
  [i \in 1..(Len(images) - 1) |->
     makeEdge(<<"e-brand-img", i - 1>>, <<"brandStyle">>, <<"image", i - 1>>,
              Len(images) > 1, FALSE, activeEdgeStyle, "#ffffff")]

NewImageEdges(images) ==
  [i \in 1..Len(images) |->
     makeEdge(<<"e-brand-img", i - 1>>, <<"brandStyle">>, <<"image", i - 1>>,
              Len(images) > 1, FALSE, activeEdgeStyle, "#ffffff")]

\* the clean-up filter without its image- clause
KeepNodeGenerateOnly(n) ==
  /\ n.id # <<"generate">>
  /\ ~StartsWith(n.id, "generate")

\* a clean-up filter that also drops the node the fan-out starts from
KeepNodeDropsBrandStyle(n) ==
  /\ n.id # <<"generate">>
  /\ ~StartsWith(n.id, "generate")
  /\ ~StartsWith(n.id, "image")
  /\ n.id # <<"brandStyle">>

\* a clean-up filter that keeps only the three fixed nodes
KeepNodeFixedOnly(n) ==
  /\ n.id # <<"generate">>
  /\ ~StartsWith(n.id, "generate")
  /\ ~StartsWith(n.id, "image")
  /\ ~StartsWith(n.id, "preview")

KeepNode(n) ==
  /\ n.id # <<"generate">>
  /\ ~StartsWith(n.id, "generate")
  /\ ~StartsWith(n.id, "image")

\* the clean-up filter without its image- clause
KeepEdgeGenerateOnly(e) ==
  /\ e.target # <<"generate">>
  /\ ~StartsWith(e.target, "generate")

KeepEdge(e) ==
  /\ e.target # <<"generate">>
  /\ ~StartsWith(e.target, "generate")
  /\ ~StartsWith(e.target, "image")

\* handleBrandStyleConfirmed from the resolution of fetch with an ok response
generationSucceeded(c, result) ==
  /\ calls[c].state = "inflight"
  /\ LET images == ImagesOf(result)
     IN /\ nodes' = SelectSeq(updateNodeStatus(nodes, <<"brandStyle">>, "completed"), KeepNode)
                      \o NewImageNodes(images, calls[c].baseY)
        /\ edges' = SelectSeq(edges, KeepEdge) \o NewImageEdges(images)
  /\ isGeneratingImages' = FALSE
  /\ calls' = [calls EXCEPT ![c].state = "ok"]
  /\ lastApplied' = [call |-> c, n |-> Len(ImagesOf(result))]
  /\ UNCHANGED <<demographicsData, confirmedDemographics, brandStyleData, closureBrandY, nodeVars>>

\* a catch block that also clears the fanned-out nodes
generationFailedClearsImages(c) ==
  /\ calls[c].state = "inflight"
  /\ nodes' = SelectSeq(updateNodeStatus(nodes, <<"brandStyle">>, "active"), KeepNode)
  /\ isGeneratingImages' = FALSE
  /\ calls' = [calls EXCEPT ![c].state = "failed"]
  /\ UNCHANGED <<edges, demographicsData, confirmedDemographics, brandStyleData,
                 closureBrandY, lastApplied, nodeVars>>

\* handleBrandStyleConfirmed when fetch rejects or the response is not ok
generationFailed(c) ==
  /\ calls[c].state = "inflight"
  /\ nodes' = updateNodeStatus(nodes, <<"brandStyle">>, "active")
  /\ isGeneratingImages' = FALSE
  /\ calls' = [calls EXCEPT ![c].state = "failed"]
  /\ UNCHANGED <<edges, demographicsData, confirmedDemographics, brandStyleData,
                 closureBrandY, lastApplied, nodeVars>>

\* a handler that places the Preview node without reading the source node
handlePreviewImageAtOrigin(nodeId, data) ==
  LET previewNodeId == <<"preview">> \o nodeId
      nds == IF HasNode(nodes, previewNodeId) THEN nodes
             ELSE Append(nodes, Node(previewNodeId, "preview", 2300, 0, "active",
                                     0, data.imageUrl))
      eds == IF \E i \in 1..Len(edges) : edges[i].target = previewNodeId THEN edges
             ELSE Append(edges, makeEdge(<<"e">> \o nodeId \o <<"prev">>, nodeId,
                                         previewNodeId, FALSE, FALSE, activeEdgeStyle,
                                         "#ffffff"))
  IN /\ nodes' = updateNodeStatus(nds, nodeId, "completed")
     /\ edges' = eds
     /\ UNCHANGED <<demographicsData, confirmedDemographics, brandStyleData,
                    isGeneratingImages, closureBrandY, calls, lastApplied, nodeVars>>

\* a handler that tests only the node list before it adds the edge
handlePreviewImageEdgeUnguarded(nodeId, data) ==
  LET previewNodeId == <<"preview">> \o nodeId
      sourceNode == FindNode(nodes, nodeId)
      yPos == IF sourceNode = {} THEN 0 ELSE (CHOOSE n \in sourceNode : TRUE).position.y
      centerOffset == IF sourceNode = {} THEN 0
                      ELSE (CHOOSE n \in sourceNode : TRUE).centerOffset
      nds == IF HasNode(nodes, previewNodeId) THEN nodes
             ELSE Append(nodes, Node(previewNodeId, "preview", 2300, yPos, "active",
                                     centerOffset, data.imageUrl))
      eds == Append(edges, makeEdge(<<"e">> \o nodeId \o <<"prev">>, nodeId,
                                    previewNodeId, FALSE, FALSE, activeEdgeStyle,
                                    "#ffffff"))
  IN /\ nodes' = updateNodeStatus(nds, nodeId, "completed")
     /\ edges' = eds
     /\ UNCHANGED <<demographicsData, confirmedDemographics, brandStyleData,
                    isGeneratingImages, closureBrandY, calls, lastApplied, nodeVars>>

\* a handler without its "check if exists" guards
handlePreviewImageNoGuard(nodeId, data) ==
  LET previewNodeId == <<"preview">> \o nodeId
      sourceNode == FindNode(nodes, nodeId)
      yPos == IF sourceNode = {} THEN 0 ELSE (CHOOSE n \in sourceNode : TRUE).position.y
      centerOffset == IF sourceNode = {} THEN 0
                      ELSE (CHOOSE n \in sourceNode : TRUE).centerOffset
      nds == Append(nodes, Node(previewNodeId, "preview", 2300, yPos, "active",
                                centerOffset, data.imageUrl))
      eds == Append(edges, makeEdge(<<"e">> \o nodeId \o <<"prev">>, nodeId,
                                    previewNodeId, FALSE, FALSE, activeEdgeStyle,
                                    "#ffffff"))
  IN /\ nodes' = updateNodeStatus(nds, nodeId, "completed")
     /\ edges' = eds
     /\ UNCHANGED <<demographicsData, confirmedDemographics, brandStyleData,
                    isGeneratingImages, closureBrandY, calls, lastApplied, nodeVars>>

handlePreviewImage(nodeId, data) ==
  LET previewNodeId == <<"preview">> \o nodeId
      sourceNode == FindNode(nodes, nodeId)
      yPos == IF sourceNode = {} THEN 0 ELSE (CHOOSE n \in sourceNode : TRUE).position.y
      centerOffset == IF sourceNode = {} THEN 0
                      ELSE (CHOOSE n \in sourceNode : TRUE).centerOffset
      nds == IF HasNode(nodes, previewNodeId) THEN nodes
             ELSE Append(nodes, Node(previewNodeId, "preview", 2300, yPos, "active",
                                     centerOffset, data.imageUrl))
      eds == IF \E i \in 1..Len(edges) : edges[i].target = previewNodeId THEN edges
             ELSE Append(edges, makeEdge(<<"e">> \o nodeId \o <<"prev">>, nodeId,
                                         previewNodeId, FALSE, FALSE, activeEdgeStyle,
                                         "#ffffff"))
  IN /\ nodes' = updateNodeStatus(nds, nodeId, "completed")
     /\ edges' = eds
     /\ UNCHANGED <<demographicsData, confirmedDemographics, brandStyleData,
                    isGeneratingImages, closureBrandY, calls, lastApplied, nodeVars>>

\* an updater that flips the status of the preview- nodes
completePreviewsToggle(nds) ==
  [i \in 1..Len(nds) |->
     IF StartsWith(nds[i].id, "preview")
       THEN [nds[i] EXCEPT !.status = IF @ = "completed" THEN "active" ELSE "completed"]
       ELSE nds[i]]

\* an updater without the preview- test
completeAllNodes(nds) ==
  [i \in 1..Len(nds) |-> [nds[i] EXCEPT !.status = "completed"]]

\* the updater handleWorkflowComplete passes to setNodes
completePreviews(nds) ==
  [i \in 1..Len(nds) |->
     IF StartsWith(nds[i].id, "preview")
       THEN [nds[i] EXCEPT !.status = "completed"] ELSE nds[i]]

handleWorkflowComplete ==
  /\ nodes' = completePreviews(nodes)
  /\ UNCHANGED <<edges, demographicsData, confirmedDemographics, brandStyleData,
                 isGeneratingImages, closureBrandY, calls, lastApplied, nodeVars>>

\* ------------------------------------------------------------ the session
DemographicsReceived ==
  /\ ProductUrlCanSubmit
  /\ \E data \in DemoPayloads : handleDemographicsReceived(data)
  /\ UNCHANGED formVars

DemographicsConfirmed ==
  /\ DemographicsCanConfirm
  /\ \E data \in ConfirmPayloads : handleDemographicsConfirmed(data)
  /\ UNCHANGED formVars

BrandStyleConfirmed ==
  /\ BrandStyleCanConfirm
  /\ \E data \in StylePayloads : handleBrandStyleConfirmed(data)
  /\ UNCHANGED formVars

GenerationSucceeded ==
  /\ \E c \in 1..Len(calls) : \E result \in Results(c) : generationSucceeded(c, result)
  /\ UNCHANGED formVars

GenerationFailed ==
  /\ \E c \in 1..Len(calls) : generationFailed(c)
  /\ UNCHANGED formVars

\* nodesWithCallbacks gives onPreview to every node whose id starts with 'image-'
PreviewImage ==
  \E n \in Range(nodes) :
     /\ StartsWith(n.id, "image")
     /\ ImageCanPreview(n)
     /\ \/ HasNode(nodes, <<"preview">> \o n.id)
        \/ Cardinality({i \in 1..Len(nodes) : StartsWith(nodes[i].id, "preview")}) < MaxPreviews
     /\ handlePreviewImage(n.id, n)
     /\ UNCHANGED formVars

\* nodesWithCallbacks gives onComplete to every node whose id starts with 'preview-'
WorkflowComplete ==
  /\ \E n \in Range(nodes) : StartsWith(n.id, "preview") /\ PreviewCanComplete(n)
  /\ handleWorkflowComplete
  /\ UNCHANGED formVars

DragNode ==
  /\ \E y \in DragYs : DragBrandStyle(y)
  /\ UNCHANGED formVars

Next ==
  \/ DemographicsReceived
  \/ DemographicsConfirmed
  \/ BrandStyleConfirmed
  \/ GenerationSucceeded
  \/ GenerationFailed
  \/ PreviewImage
  \/ WorkflowComplete
  \/ DragNode

Spec == Init /\ [][Next]_vars



\* ------------------------------------------------------------ at-least-once delivery
\* The session without node dragging, with the events of the first two steps
\* delivered a second time in succession: the callback is invoked once more with the payload it was
\* just given, whatever the buttons allow. (The other three events can be
\* repeated in the session itself.)

\* the graph as onDemographicsReceived(data) leaves it
JustReceived(data) ==
  /\ demographicsData = data
  /\ StatusOf(nodes, <<"productUrl">>) = "completed"
  /\ StatusOf(nodes, <<"demographics">>) = "active"

\* the graph as onDemographicsConfirmed(data) leaves it
JustConfirmed(data) ==
  /\ confirmedDemographics = data
  /\ StatusOf(nodes, <<"demographics">>) = "completed"
  /\ StatusOf(nodes, <<"brandStyle">>) = "active"

RedeliverReceived ==
  \E data \in DemoPayloads :
     /\ JustReceived(data)
     /\ handleDemographicsReceived(data)
     /\ UNCHANGED formVars

RedeliverConfirmed ==
  \E data \in ConfirmPayloads :
     /\ JustConfirmed(data)
     /\ handleDemographicsConfirmed(data)
     /\ UNCHANGED formVars

NextRedeliver ==
  \/ DemographicsReceived
  \/ RedeliverReceived
  \/ DemographicsConfirmed
  \/ RedeliverConfirmed
  \/ BrandStyleConfirmed
  \/ GenerationSucceeded
  \/ GenerationFailed
  \/ PreviewImage
  \/ WorkflowComplete

SpecRedeliver == Init /\ [][NextRedeliver]_vars

\* ------------------------------------------------------------ the controller alone
\* The callbacks invoked directly, with any argument and in any state, as a
\* caller other than the node components' buttons can.

\* payloads that are absent, or lack a required field
MalformedPayloads == {Null, "demoNoGender"}

\* the ids a preview can be requested for, in the node set or not
BranchIds == {<<"image", k>> : k \in 0..(MaxImages - 1)}

\* the data the caller passes with a branch id: the node's data if it has one
PreviewData(id) ==
  IF HasNode(nodes, id) THEN CHOOSE n \in FindNode(nodes, id) : TRUE
  ELSE [imageUrl |-> NoImage]

ReceivedDirect ==
  /\ \E data \in DemoPayloads \cup MalformedPayloads : handleDemographicsReceived(data)
  /\ UNCHANGED formVars

ConfirmedDirect ==
  /\ \E data \in ConfirmPayloads : handleDemographicsConfirmed(data)
  /\ UNCHANGED formVars

PreviewRequested ==
  \E id \in BranchIds :
     /\ \/ HasNode(nodes, <<"preview">> \o id)
        \/ Cardinality({i \in 1..Len(nodes) : StartsWith(nodes[i].id, "preview")}) < MaxPreviews
     /\ handlePreviewImage(id, PreviewData(id))
     /\ UNCHANGED formVars

CompletedDirect == handleWorkflowComplete /\ UNCHANGED formVars

NextDirect ==
  \/ ReceivedDirect
  \/ ConfirmedDirect
  \/ BrandStyleConfirmed
  \/ GenerationSucceeded
  \/ GenerationFailed
  \/ PreviewRequested
  \/ CompletedDirect

SpecDirect == Init /\ [][NextDirect]_vars
\* ------------------------------------------------------------ the age-range conversion
\* Strings are sequences of characters.
DigitChars == <<"0", "1", "2", "3", "4", "5", "6", "7", "8", "9">>

\* the string a template literal `${n}` gives for a non-negative integer
RECURSIVE NumberToString(_)
NumberToString(n) ==
  IF n < 10 THEN <<DigitChars[n + 1]>>
  ELSE NumberToString(n \div 10) \o <<DigitChars[(n % 10) + 1]>>

\* a conversion that writes the closed range with the bounds exchanged
ageRangeStrSwapped(range) ==
  IF range = JsNull THEN JsNull
  ELSE LET min == range[1].min
           max == range[1].max
       IN IF min = JsNull /\ max = JsNull THEN Some(<<"A", "l", "l">>)
          ELSE IF min = JsNull THEN Some(NumberToString(max[1]) \o <<"-">>)
          ELSE IF max = JsNull THEN Some(NumberToString(min[1]) \o <<"+">>)
          ELSE Some(NumberToString(max[1]) \o <<"-">> \o NumberToString(min[1]))

\* handleBrandStyleConfirmed: ageRangeStr of confirmedDemographics.age_range
ageRangeStr(range) ==
  IF range = JsNull THEN JsNull
  ELSE LET min == range[1].min
           max == range[1].max
       IN IF min = JsNull /\ max = JsNull THEN Some(<<"A", "l", "l">>)
          ELSE IF min = JsNull THEN Some(NumberToString(max[1]) \o <<"-">>)
          ELSE IF max = JsNull THEN Some(NumberToString(min[1]) \o <<"+">>)
          ELSE Some(NumberToString(min[1]) \o <<"-">> \o NumberToString(max[1]))

\* GenerateNode.handleGenerate: ageRangeStr of data.demographics.age_range
generateNodeAgeRangeStr(range) ==
  IF range = JsNull THEN JsNull
  ELSE LET min == range[1].min
           max == range[1].max
       IN IF min = JsNull /\ max = JsNull THEN Some(<<"A", "l", "l">>)
          ELSE IF min = JsNull THEN Some(NumberToString(max[1]) \o <<"-">>)
          ELSE IF max = JsNull THEN Some(NumberToString(min[1]) \o <<"+">>)
          ELSE Some(NumberToString(min[1]) \o <<"-">> \o NumberToString(max[1]))

\* an age bound: null for an open bound, or a number
AgeBounds == {JsNull} \cup {Some(n) : n \in 0..MaxAge}
\* the age_range of a demographics object: absent, or a pair of bounds
AgeRanges == {JsNull} \cup {Some([min |-> a, max |-> b]) : a \in AgeBounds, b \in AgeBounds}

AgeInit ==
  /\ canvasInit
  /\ formIdle
  /\ age_range \in AgeRanges
  /\ controllerAgeRangeStr = NotRun
  /\ generateAgeRangeStr = NotRun
  /\ feedItems = <<>>
  /\ displayFeed = NotRun
  /\ adIntervalArg = JsNull
  /\ previewIdle

\* the controller builds the generation request
ControllerBuildsRequest ==
  /\ controllerAgeRangeStr = NotRun
  /\ controllerAgeRangeStr' = Some(ageRangeStr(age_range))
  /\ UNCHANGED <<canvasVars, formVars, age_range, generateAgeRangeStr, feedVars, previewVars>>

\* the Generate node builds the generation request
GenerateNodeBuildsRequest ==
  /\ generateAgeRangeStr = NotRun
  /\ generateAgeRangeStr' = Some(generateNodeAgeRangeStr(age_range))
  /\ UNCHANGED <<canvasVars, formVars, age_range, controllerAgeRangeStr, feedVars, previewVars>>

AgeNext ==
  \/ ControllerBuildsRequest
  \/ GenerateNodeBuildsRequest

SpecAge == AgeInit /\ [][AgeNext]_vars

\* ------------------------------------------------------------ the feed merge
\* the content items parseJsonlFeed yields, by their identity
Tweets == {"t1", "t2"}
\* the image a Preview node holds
FeedImage == <<1, 0>>

RECURSIVE SeqsUpTo(_)
\* the sequences of content items of length at most n
SeqsUpTo(n) ==
  IF n = 0 THEN {<<>>}
  ELSE LET shorter == SeqsUpTo(n - 1)
       IN shorter \cup {Append(s, t) : s \in {q \in shorter : Len(q) = n - 1}, t \in Tweets}

AdItem(position, imageUrl) ==
  [type |-> "ad", key |-> <<"ad", position>>, imageUrl |-> imageUrl, tweet |-> "none"]
TweetItem(position, tweet) ==
  [type |-> "tweet", key |-> <<"tweet", position>>, imageUrl |-> NoImage, tweet |-> tweet]

\* a loop that gives an ad its slot only while content is left
RECURSIVE buildDisplayFeedLoopAdsFollowContent(_, _, _, _, _)
buildDisplayFeedLoopAdsFollowContent(i, tweetIndex, items, tweets, imageUrl) ==
  IF ~(i < PREVIEW_COUNT) THEN items
  ELSE LET position == i + 1
       IN IF position % AD_INTERVAL = 0 /\ tweetIndex < Len(tweets)
            THEN buildDisplayFeedLoopAdsFollowContent(i + 1, tweetIndex,
                   Append(items, AdItem(position, imageUrl)), tweets, imageUrl)
          ELSE IF position % AD_INTERVAL # 0 /\ tweetIndex < Len(tweets)
            THEN buildDisplayFeedLoopAdsFollowContent(i + 1, tweetIndex + 1,
                   Append(items, TweetItem(position, tweets[tweetIndex + 1])), tweets, imageUrl)
          ELSE buildDisplayFeedLoopAdsFollowContent(i + 1, tweetIndex, items, tweets, imageUrl)

\* a loop that puts the ad in front of every group
RECURSIVE buildDisplayFeedLoopAdFirst(_, _, _, _, _)
buildDisplayFeedLoopAdFirst(i, tweetIndex, items, tweets, imageUrl) ==
  IF ~(i < PREVIEW_COUNT) THEN items
  ELSE LET position == i + 1
       IN IF position % AD_INTERVAL = 1
            THEN buildDisplayFeedLoopAdFirst(i + 1, tweetIndex,
                   Append(items, AdItem(position, imageUrl)), tweets, imageUrl)
          ELSE IF tweetIndex < Len(tweets)
            THEN buildDisplayFeedLoopAdFirst(i + 1, tweetIndex + 1,
                   Append(items, TweetItem(position, tweets[tweetIndex + 1])), tweets, imageUrl)
          ELSE buildDisplayFeedLoopAdFirst(i + 1, tweetIndex, items, tweets, imageUrl)

\* the for loop of buildDisplayFeed from its iteration i on
RECURSIVE buildDisplayFeedLoop(_, _, _, _, _)
buildDisplayFeedLoop(i, tweetIndex, items, tweets, imageUrl) ==
  IF ~(i < PREVIEW_COUNT) THEN items
  ELSE LET position == i + 1
       IN IF position % AD_INTERVAL = 0
            THEN buildDisplayFeedLoop(i + 1, tweetIndex,
                   Append(items, AdItem(position, imageUrl)), tweets, imageUrl)
          ELSE IF tweetIndex < Len(tweets)
            THEN buildDisplayFeedLoop(i + 1, tweetIndex + 1,
                   Append(items, TweetItem(position, tweets[tweetIndex + 1])), tweets, imageUrl)
          ELSE buildDisplayFeedLoop(i + 1, tweetIndex, items, tweets, imageUrl)

buildDisplayFeed(tweets, imageUrl) == buildDisplayFeedLoop(0, 0, <<>>, tweets, imageUrl)

FeedInit ==
  /\ canvasInit
  /\ formIdle
  /\ ageIdle
  /\ feedItems \in SeqsUpTo(MaxTweets)
  /\ displayFeed = NotRun
  /\ adIntervalArg = JsNull
  /\ previewIdle

\* useMemo: the Preview node renders and merges the feed
RenderFeed ==
  /\ displayFeed = NotRun
  /\ displayFeed' = Some(buildDisplayFeed(feedItems, FeedImage))
  /\ UNCHANGED <<canvasVars, formVars, ageVars, feedItems, adIntervalArg, previewVars>>

FeedNext == RenderFeed

SpecFeed == FeedInit /\ [][FeedNext]_vars


\* ------------------------------------------------------------ the feed merge, called
\* buildDisplayFeed called as merge(content, creative, totalSlots, adInterval)
\* is: the function declares two parameters and a JavaScript call binds the
\* arguments beyond them to nothing.
AdIntervalArgs == {-3, 0, 3}

MergeCalled ==
  /\ displayFeed = NotRun
  /\ \E adInterval \in AdIntervalArgs :
        /\ adIntervalArg' = Some(adInterval)
        /\ displayFeed' = Some(buildDisplayFeed(feedItems, FeedImage))
  /\ UNCHANGED <<canvasVars, formVars, ageVars, feedItems, previewVars>>

MergeNext == MergeCalled

SpecMerge == FeedInit /\ [][MergeNext]_vars

\* ------------------------------------------------------------ the Preview node
\* One mounted PreviewNode: its status prop, the feed load effect and the
\* autoscroll effect. An action is one task of the event loop: a change of the
\* props with the renders and effect runs it causes (a state update made in an
\* effect is rendered before any timer or frame of the same commit can run),
\* the settling of one awaited promise, the expiry of a timeout, one animation
\* frame, or the passing of time. Positions and heights are in tenths of a pixel.

\* setTimeout(..., 500)
START_DELAY == 500
\* Math.min(currentTime - lastTime, 16)
FRAME_CAP == 16
\* scrollSpeed = 0.8 pixels per 16 ms
scrollSpeed == 8
\* the step in which time passes while a start delay runs
TimeStep == START_DELAY \div 2
\* the time between two animation frames, in ms
FrameTimes == {8, 16, 32}
\* feedElement.scrollHeight / 2 as a tick can read it: the feed not laid out, a
\* short feed and one twice as high
Heights == {0, 12, 24}
\* what parseJsonlFeed(raw, 7) can yield
LoadedFeeds == {<<>>, <<"t1", "t2">>}
\* e.message || 'Failed to load feed'
LoadError == Some("Failed to load feed")

\* the runs of loadFeed modelled
MaxLoads == 2
\* the autoscroll loops modelled
MaxLoops == 3
\* ticks are modelled while the accumulator is at most this
MaxScroll == 24

\* a load effect that is on only while the node is Active
shouldLoadFeedWhileActive(st) == st = "active"

shouldLoadFeed(st) == st # "pending"

\* how an awaited fetch can settle: res.ok, !res.ok, or the promise rejects
FetchResults == {"ok", "notok", "rejected"}
\* how await res.text() can settle
TextResults == {"ok", "rejected"}

\* one run of loadFeed: the await it stands at, the flag of its closure, how it
\* ended, and its variable res: the response fetched last ("rejected" when the
\* fetch threw instead)
newLoad ==
  [stage |-> "primary", cancelled |-> FALSE, outcome |-> "none", res |-> "none"]

\* a loadFeed that asks the fallback location whatever the primary answered
afterPrimaryAlwaysFallback(res) ==
  IF res = "rejected" THEN "catch" ELSE "fallback"

\* let res = await fetch(primaryUrl); if (!res.ok) res = await fetch(fallbackUrl)
afterPrimary(res) ==
  IF res = "rejected" THEN "catch"
  ELSE IF res # "ok" THEN "fallback" ELSE "text"

\* res = await fetch(fallbackUrl); if (!res.ok) throw new Error(...)
afterFallback(res) ==
  IF res = "rejected" THEN "catch"
  ELSE IF res # "ok" THEN "catch" ELSE "text"

\* the closure of one run of the autoscroll effect that got past its guard:
\* startTimeout, animationFrameId and, as history, what requested the frame
\* last, whether animate has run and whether the cleanup has run
newLoop ==
  [timer |-> "pending", frame |-> "none", elapsed |-> 0, ticked |-> FALSE,
   requestedBy |-> "none", cleaned |-> FALSE]

\* the dependency list of the autoscroll effect
autoscrollDeps(st, ld, err, items) ==
  <<shouldLoadFeed(st), ld, err, Len(buildDisplayFeed(items, FeedImage))>>

\* the guard of the autoscroll effect; feedRef.current is set while mounted
autoscrollGuard(deps) ==
  ~(~deps[1] \/ deps[2] \/ deps[3] # JsNull \/ deps[4] = 0)

\* a cleanup that forgets the animation frame
autoscrollCleanupTimeoutOnly(lps, l) ==
  IF l = 0 THEN lps
  ELSE [lps EXCEPT ![l] = [@ EXCEPT !.timer = IF @ = "pending" THEN "cleared" ELSE @,
                                     !.cleaned = TRUE]]

\* the cleanup the autoscroll effect returns, for the loop l of its closure
autoscrollCleanup(lps, l) ==
  IF l = 0 THEN lps
  ELSE [lps EXCEPT ![l] = [@ EXCEPT !.timer = IF @ = "pending" THEN "cleared" ELSE @,
                                     !.frame = IF @ = "requested" THEN "cancelled" ELSE @,
                                     !.cleaned = TRUE]]

\* an effect body that requests the first frame itself
autoscrollBodyNoDelay(lps) ==
  Append(lps, [newLoop EXCEPT !.frame = "requested", !.requestedBy = "effect"])

\* the body of the autoscroll effect past its guard
autoscrollBody(lps) == Append(lps, newLoop)

\* a commit that runs the body of the effect without the cleanup of the run before
autoscrollEffectNoCleanup(before, after, lps, l) ==
  IF before = after THEN <<lps, l>>
  ELSE IF autoscrollGuard(after)
         THEN <<autoscrollBody(lps), Len(lps) + 1>>
         ELSE <<lps, 0>>

\* one commit: the autoscroll effect runs again when its dependencies changed,
\* first the cleanup of the previous run, then the body; gives <<loops, currentLoop>>
autoscrollEffect(before, after, lps, l) ==
  IF before = after THEN <<lps, l>>
  ELSE LET cleaned == autoscrollCleanup(lps, l)
       IN IF autoscrollGuard(after)
            THEN <<autoscrollBody(cleaned), Len(cleaned) + 1>>
            ELSE <<cleaned, 0>>

\* a cleanup that leaves the closure's flag as it is
loadCleanupForgets(lds, k) == lds

\* the cleanup the load effect returns: cancelled = true in the closure of run k
loadCleanup(lds, k) ==
  IF k = 0 THEN lds ELSE [lds EXCEPT ![k].cancelled = TRUE]

\* the Preview node after its first commit, mounted Pending or Active
PreviewInit ==
  /\ canvasInit
  /\ formIdle
  /\ ageIdle
  /\ feedItems = <<>>
  /\ displayFeed = Some(buildDisplayFeed(<<>>, FeedImage))
  /\ adIntervalArg = JsNull
  /\ mounted = TRUE
  /\ statusClass \in {"pending", "active"}
  /\ loading = shouldLoadFeed(statusClass)
  /\ error = JsNull
  /\ loads = IF shouldLoadFeed(statusClass) THEN <<newLoad>> ELSE <<>>
  /\ currentLoad = Len(loads)
  /\ loops = <<>>
  /\ currentLoop = 0
  /\ scrollPosition = 0
  /\ singleFeedHeight = 0

\* the render after a change of the state the load wrote, and its effects
loadSucceeds(k, tweets) ==
  /\ loads' = [loads EXCEPT ![k].stage = "done", ![k].outcome = "items"]
  /\ IF loads[k].cancelled
       THEN UNCHANGED <<feedItems, displayFeed, loading, error, loops, currentLoop>>
       ELSE LET e == autoscrollEffect(
                       autoscrollDeps(statusClass, loading, error, feedItems),
                       autoscrollDeps(statusClass, FALSE, error, tweets),
                       loops, currentLoop)
            IN /\ feedItems' = tweets
               /\ displayFeed' = Some(buildDisplayFeed(tweets, FeedImage))
               /\ loading' = FALSE
               /\ error' = error
               /\ loops' = e[1]
               /\ currentLoop' = e[2]
               /\ Len(e[1]) <= MaxLoops
  /\ UNCHANGED <<canvasVars, formVars, ageVars, adIntervalArg, mounted, statusClass, currentLoad,
                 scrollPosition, singleFeedHeight>>

\* the catch and finally blocks of loadFeed
loadFails(k, settled) ==
  /\ loads' = [settled EXCEPT ![k].stage = "done", ![k].outcome = "error"]
  /\ IF loads[k].cancelled
       THEN UNCHANGED <<loading, error, loops, currentLoop>>
       ELSE LET e == autoscrollEffect(
                       autoscrollDeps(statusClass, loading, error, feedItems),
                       autoscrollDeps(statusClass, FALSE, LoadError, feedItems),
                       loops, currentLoop)
            IN /\ error' = LoadError
               /\ loading' = FALSE
               /\ loops' = e[1]
               /\ currentLoop' = e[2]
               /\ Len(e[1]) <= MaxLoops
  /\ UNCHANGED <<canvasVars, formVars, ageVars, feedVars, mounted, statusClass, currentLoad,
                 scrollPosition, singleFeedHeight>>

\* loadFeed goes on to its next await
loadGoesOn(k, settled, stage) ==
  /\ loads' = [settled EXCEPT ![k].stage = stage]
  /\ UNCHANGED <<canvasVars, formVars, ageVars, feedVars, mounted, statusClass, loading, error,
                 currentLoad, loops, currentLoop, scrollPosition, singleFeedHeight>>

\* data.status changes: the component renders, the load effect runs again when
\* shouldLoadFeed changed, and the state it sets is rendered
StatusChanges ==
  \E st \in {"pending", "active", "completed"} :
     /\ mounted
     /\ st # statusClass
     /\ statusClass' = st
     /\ IF shouldLoadFeed(st) = shouldLoadFeed(statusClass)
          THEN UNCHANGED <<feedItems, displayFeed, loading, error, loads, currentLoad,
                           loops, currentLoop>>
          ELSE LET items == IF shouldLoadFeed(st) THEN feedItems ELSE <<>>
                   cancelled == loadCleanup(loads, currentLoad)
                   first == autoscrollEffect(
                              autoscrollDeps(statusClass, loading, error, feedItems),
                              autoscrollDeps(st, loading, error, feedItems),
                              loops, currentLoop)
                   second == autoscrollEffect(
                               autoscrollDeps(st, loading, error, feedItems),
                               autoscrollDeps(st, shouldLoadFeed(st), JsNull, items),
                               first[1], first[2])
               IN /\ loading' = shouldLoadFeed(st)
                  /\ error' = JsNull
                  /\ feedItems' = items
                  /\ displayFeed' = Some(buildDisplayFeed(items, FeedImage))
                  /\ loads' = IF shouldLoadFeed(st) THEN Append(cancelled, newLoad)
                              ELSE cancelled
                  /\ currentLoad' = IF shouldLoadFeed(st) THEN Len(cancelled) + 1 ELSE 0
                  /\ loops' = second[1]
                  /\ currentLoop' = second[2]
                  /\ Len(loads') <= MaxLoads
                  /\ Len(second[1]) <= MaxLoops
     /\ UNCHANGED <<canvasVars, formVars, ageVars, adIntervalArg, mounted, scrollPosition,
                    singleFeedHeight>>

\* await fetch(primaryUrl) settles
PrimaryFetchSettles ==
  \E k \in 1..Len(loads) :
     /\ loads[k].stage = "primary"
     /\ \E res \in FetchResults :
          LET settled == [loads EXCEPT ![k].res = res]
              then == afterPrimary(res)
          IN IF then = "catch"
               THEN loadFails(k, settled)
               ELSE loadGoesOn(k, settled, then)

\* await fetch(fallbackUrl) settles: ok, not ok, or rejected
FallbackFetchSettles ==
  \E k \in 1..Len(loads) :
     /\ loads[k].stage = "fallback"
     /\ \E res \in FetchResults :
          LET settled == [loads EXCEPT ![k].res = res]
              then == afterFallback(res)
          IN IF then = "catch"
               THEN loadFails(k, settled)
               ELSE loadGoesOn(k, settled, then)

\* await res.text() settles
TextSettles ==
  \E k \in 1..Len(loads) :
     /\ loads[k].stage = "text"
     /\ \E res \in TextResults :
          IF res = "ok"
            THEN \E tweets \in LoadedFeeds : loadSucceeds(k, tweets)
            ELSE loadFails(k, loads)

\* a loop whose clock matters: its start timeout is pending, or its first frame is
Waiting(lp) == lp.timer = "pending" \/ (lp.frame = "requested" /\ ~lp.ticked)

TimePasses ==
  /\ \E l \in 1..Len(loops) : Waiting(loops[l]) /\ loops[l].elapsed < START_DELAY
  /\ loops' = [l \in 1..Len(loops) |->
                 IF Waiting(loops[l])
                   THEN [loops[l] EXCEPT !.elapsed = IF @ + TimeStep < START_DELAY
                                                       THEN @ + TimeStep ELSE START_DELAY]
                   ELSE loops[l]]
  /\ UNCHANGED <<canvasVars, formVars, ageVars, feedVars, mounted, statusClass, loading, error,
                 loads, currentLoad, currentLoop, scrollPosition, singleFeedHeight>>

\* the callback of setTimeout runs
TimeoutFires ==
  \E l \in 1..Len(loops) :
     /\ loops[l].timer = "pending"
     /\ loops[l].elapsed >= START_DELAY
     /\ loops' = [loops EXCEPT ![l].timer = "fired", ![l].frame = "requested",
                               ![l].requestedBy = "timeout"]
     /\ UNCHANGED <<canvasVars, formVars, ageVars, feedVars, mounted, statusClass, loading, error,
                    loads, currentLoad, currentLoop, scrollPosition, singleFeedHeight>>

\* animate(currentTime) of loop l, sinceFrame ms after the frame before, reading
\* scrollHeight / 2 as height
animate(l, sinceFrame, height) ==
  /\ loops[l].frame = "requested"
  /\ scrollPosition <= MaxScroll
  /\ LET sinceLast == IF loops[l].ticked THEN sinceFrame ELSE loops[l].elapsed
         deltaTime == IF sinceLast < FRAME_CAP THEN sinceLast ELSE FRAME_CAP
         advanced == scrollPosition + (scrollSpeed * deltaTime) \div FRAME_CAP
     IN scrollPosition' = IF advanced >= height THEN advanced - height ELSE advanced
  /\ singleFeedHeight' = height
  /\ loops' = [loops EXCEPT ![l].ticked = TRUE, ![l].requestedBy = "animate"]
  /\ UNCHANGED <<canvasVars, formVars, ageVars, feedVars, mounted, statusClass, loading, error,
                 loads, currentLoad, currentLoop>>

Tick ==
  \E l \in 1..Len(loops) : \E sinceFrame \in FrameTimes : \E height \in Heights :
     animate(l, sinceFrame, height)

\* the component is torn down: both effects are cleaned up
Unmount ==
  /\ mounted
  /\ mounted' = FALSE
  /\ loads' = loadCleanup(loads, currentLoad)
  /\ currentLoad' = 0
  /\ loops' = autoscrollCleanup(loops, currentLoop)
  /\ currentLoop' = 0
  /\ UNCHANGED <<canvasVars, formVars, ageVars, feedVars, statusClass, loading, error,
                 scrollPosition, singleFeedHeight>>

PreviewNext ==
  \/ StatusChanges
  \/ PrimaryFetchSettles
  \/ FallbackFetchSettles
  \/ TextSettles
  \/ TimePasses
  \/ TimeoutFires
  \/ Tick
  \/ Unmount

SpecPreview == PreviewInit /\ [][PreviewNext]_vars

\* The load effect of the node alone, its timers and frames left out (they
\* write none of the state the load reads or writes), with the awaits of
\* loadFeed settling: the browser ends every fetch and every read of a body,
\* with a result or with an error, and the continuation of loadFeed is then run
\* from the microtask queue.
LoadNext ==
  \/ StatusChanges
  \/ PrimaryFetchSettles
  \/ FallbackFetchSettles
  \/ TextSettles
  \/ Unmount

SpecLoad ==
  /\ PreviewInit
  /\ [][LoadNext]_vars
  /\ WF_vars(PrimaryFetchSettles)
  /\ WF_vars(FallbackFetchSettles)
  /\ WF_vars(TextSettles)
\* ------------------------------------------------------------ the ProductUrl node
\* The ProductUrlNode component on the canvas: its two fields, its submit
\* button and the demographics request. An action is one event handler run, or
\* the continuation of handleSubmit after its awaits, with the render it causes.

\* what the user can type into a field: nothing, a blank, a character
Texts == {<<>>, <<" ">>, <<"u">>}
\* how the request can end: response.ok with a JSON body, a response that is
\* not ok, a fetch that rejects, a body that is not JSON
SubmitResults == {"ok", "notok", "rejected", "badjson"}
\* the requests modelled
MaxSubmits == 2

\* String.prototype.trim on a sequence of characters
RECURSIVE trim(_)
trim(str) ==
  IF str = <<>> THEN str
  ELSE IF Head(str) = " " THEN trim(Tail(str))
  ELSE IF str[Len(str)] = " " THEN trim(SubSeq(str, 1, Len(str) - 1))
  ELSE str

\* err.message || 'Something went wrong'
SubmitErrorOf(result) ==
  IF result = "notok" THEN Some("Failed to fetch demographics")
  ELSE Some("Something went wrong")

\* onChange of the url field; the field is disabled like the button
EditProductUrl ==
  /\ ProductUrlCanSubmit
  /\ \E text \in Texts : productUrl' = text /\ text # productUrl
  /\ UNCHANGED <<canvasVars, nodeVars, prompt, isLoading, submitError, requests>>

\* onChange of the prompt field
EditPrompt ==
  /\ ProductUrlCanSubmit
  /\ \E text \in Texts : prompt' = text /\ text # prompt
  /\ UNCHANGED <<canvasVars, nodeVars, productUrl, isLoading, submitError, requests>>

\* handleSubmit up to its first await
handleSubmit ==
  IF trim(productUrl) = <<>> \/ trim(prompt) = <<>>
    THEN /\ submitError' = Some("Both fields are required")
         /\ UNCHANGED <<isLoading, requests>>
    ELSE /\ Len(requests) < MaxSubmits
         /\ isLoading' = TRUE
         /\ submitError' = JsNull
         /\ requests' = Append(requests,
              [product_url |-> productUrl, prompt |-> prompt, state |-> "inflight"])

\* a click on the submit button
Submit ==
  /\ ProductUrlCanSubmit
  /\ handleSubmit
  /\ UNCHANGED <<canvasVars, nodeVars, productUrl, prompt>>

\* handleSubmit after the request r has ended: the callback on a JSON body of
\* an ok response, the catch block otherwise, and the finally block
handleSubmitGoesOn(r, result) ==
  /\ requests' = [requests EXCEPT ![r].state = result]
  /\ isLoading' = FALSE
  /\ IF result = "ok"
       THEN /\ \E data \in DemoPayloads : handleDemographicsReceived(data)
            /\ submitError' = submitError
       ELSE /\ submitError' = SubmitErrorOf(result)
            /\ UNCHANGED <<canvasVars, nodeVars>>
  /\ UNCHANGED <<productUrl, prompt>>

ResponseArrives ==
  \E r \in 1..Len(requests) : \E result \in SubmitResults :
     /\ requests[r].state = "inflight"
     /\ handleSubmitGoesOn(r, result)

SubmitNext ==
  \/ EditProductUrl
  \/ EditPrompt
  \/ Submit
  \/ ResponseArrives
  \/ DemographicsConfirmed

SpecSubmit == Init /\ [][SubmitNext]_vars

\* ------------------------------------------------------------ properties
Brand == <<"brandStyle">>
ImageResultIdx == {i \in 1..Len(nodes) : nodes[i].type = "imageResult"}
BrandEdgeIdx == {i \in 1..Len(edges) : edges[i].source = Brand}
ImageEdgeIdx == {i \in 1..Len(edges) : StartsWith(edges[i].target, "image")}
SiblingIds(N) == {<<"image", k>> : k \in 0..(N - 1)}
Rank(status) == CASE status = "pending" -> 0 [] status = "active" -> 1
                  [] status = "completed" -> 2

FannedOut(N) ==
  /\ Cardinality(ImageResultIdx) = N
  /\ {nodes[i].id : i \in ImageResultIdx} = SiblingIds(N)
  /\ Cardinality(BrandEdgeIdx) = N
  /\ {edges[i].target : i \in BrandEdgeIdx} = SiblingIds(N)

\* C1: when a generation call succeeds with N images, the graph after the
\* fan-out holds exactly N imageResult nodes with the pairwise distinct ids
\* image-0 .. image-(N-1) and exactly N edges leaving brandStyle, one to each.
C1_FanOutExact ==
  [][\A c \in 1..Len(calls) : \A result \in Results(c) :
        generationSucceeded(c, result) => FannedOut(Len(ImagesOf(result)))']_vars

C1_Witness ==
  /\ lastApplied.call # 0 /\ lastApplied.n = 2
  /\ calls[lastApplied.call].state = "ok"
  /\ FannedOut(2)

Placed(N) ==
  \A i \in ImageResultIdx :
     LET k == nodes[i].id[2]
     IN /\ 2 * nodes[i].centerOffset = (2 * k - (N - 1)) * FanSpacing
        /\ N = 1 => nodes[i].centerOffset = 0
        /\ \A j \in ImageResultIdx :
              nodes[j].id[2] = N - 1 - k => nodes[i].centerOffset = -nodes[j].centerOffset
        /\ nodes[i].position.y = BrandY(nodes) + nodes[i].centerOffset

\* C2: a fan-out of N siblings gives sibling i the centerOffset
\* (i - (N-1)/2) * 480, symmetric around 0 and 0 for N = 1, and the vertical
\* position BrandStyle y + centerOffset.
C2_CenteredPlacement ==
  [][\A c \in 1..Len(calls) : \A result \in Results(c) :
        generationSucceeded(c, result) => Placed(Len(ImagesOf(result)))']_vars

\* C3: after any sequence of fan-outs the imageResult nodes and the edges into
\* them are those of the fan-out applied last: their number is its N and every
\* node carries an image of that call, none of an earlier one.
C3_OnlyLatestGeneration ==
  lastApplied.call # 0 =>
    /\ Cardinality(ImageResultIdx) = lastApplied.n
    /\ \A i \in ImageResultIdx : nodes[i].imageUrl[1] = lastApplied.call
    /\ Cardinality(ImageEdgeIdx) = lastApplied.n

\* a second fan-out of one image was applied over a first one of two or more:
\* the Preview node of the first one's image-1 is still there
C3_Witness ==
  /\ lastApplied.call # 0 /\ lastApplied.n = 1
  /\ Cardinality(ImageResultIdx) = 1
  /\ \E i \in 1..Len(nodes) :
        /\ nodes[i].id = <<"preview", "image", 1>>
        /\ nodes[i].imageUrl[1] # lastApplied.call

\* C4: the source and the target of every edge are ids of nodes in the node set.
C4_EdgeEndpointsExist ==
  \A i \in 1..Len(edges) : HasNode(nodes, edges[i].source) /\ HasNode(nodes, edges[i].target)

\* C5: no node's status ever moves backwards in Pending < Active < Completed.
C5_StatusMonotonic ==
  [][\A i \in 1..Len(nodes) : \A j \in 1..Len(nodes') :
        nodes[i].id = nodes'[j].id => Rank(nodes'[j].status) >= Rank(nodes[i].status)]_vars

\* a node that is Completed after the step was Active or Completed before it
NoSkipStep ==
  \A j \in 1..Len(nodes') :
     nodes'[j].status = "completed" =>
       \E i \in 1..Len(nodes) :
          nodes[i].id = nodes'[j].id /\ nodes[i].status \in {"active", "completed"}

\* the nodes of the next state whose id is new
Created == {j \in 1..Len(nodes') : ~HasNode(nodes, nodes'[j].id)}

\* C6 as stated: no node goes from Pending directly to Completed, and the
\* initial ProductInput node is the only node that is never Pending, so every
\* node created later starts Pending.
C6_OnlyProductInputSkipsPending ==
  [][NoSkipStep /\ \A j \in Created : nodes'[j].status = "pending"]_vars

\* C6, amended: no node goes from Pending directly to Completed; the nodes
\* that are never Pending are the initial ProductInput node and the
\* ImageResult and Preview nodes, which are created Active.
C6_NeverSkipsActive ==
  [][/\ NoSkipStep
     /\ \A j \in Created : /\ nodes'[j].status = "active"
                            /\ nodes'[j].type \in {"imageResult", "preview"}]_vars

C6_Witness ==
  /\ \A id \in {<<"productUrl">>, <<"demographics">>, Brand} : StatusOf(nodes, id) = "completed"
  /\ \E i \in ImageResultIdx : nodes[i].status = "completed"
  /\ \E i \in 1..Len(nodes) : nodes[i].type = "preview" /\ nodes[i].status = "completed"

\* C7: a failed generation call changes no edge and no node other than
\* brandStyle, of which it changes only the status, and leaves brandStyle Active.
C7_FailureKeepsTopology ==
  [][\A c \in 1..Len(calls) :
        generationFailed(c) =>
          /\ edges' = edges
          /\ Len(nodes') = Len(nodes)
          /\ \A i \in 1..Len(nodes) :
                IF nodes[i].id = Brand
                  THEN /\ nodes'[i].status = "active"
                       /\ [nodes'[i] EXCEPT !.status = nodes[i].status] = nodes[i]
                  ELSE nodes'[i] = nodes[i]]_vars

C7_Witness ==
  \E d \in 1..Len(calls) :
     /\ lastApplied.n > 0 /\ Cardinality(ImageResultIdx) = lastApplied.n
     /\ calls[d].state = "failed" /\ calls[d].pre = "completed"
     /\ StatusOf(nodes, Brand) = "active"

\* C8: after a failed generation call brandStyle has the status it had
\* immediately before that invocation of onBrandStyleConfirmed.
C8_FailureRestoresPreStatus ==
  [][\A c \in 1..Len(calls) :
        generationFailed(c) => StatusOf(nodes', Brand) = calls[c].pre]_vars

\* a later-issued call has already resolved
Superseded(c) == \E d \in (c + 1)..Len(calls) : calls[d].state # "inflight"

\* C9: the result of a call that resolves after a later-issued call has
\* resolved is ignored: it changes neither the nodes nor the edges.
C9_StaleResultIgnored ==
  [][\A c \in 1..Len(calls) :
        (Superseded(c) /\ (generationFailed(c) \/ \E result \in Results(c) :
                                                     generationSucceeded(c, result)))
          => (nodes' = nodes /\ edges' = edges)]_vars

PreviewOf(b) == <<"preview">> \o b

\* C11: every onBranchPreviewRequested(b) for a branch node b leaves exactly
\* one node preview-b and exactly one edge b -> preview-b; a request made while
\* preview-b already exists changes neither the set of nodes nor the edges nor
\* the Preview node.
C11_PreviewOncePerBranch ==
  [][\A n \in Range(nodes) :
        (StartsWith(n.id, "image") /\ handlePreviewImage(n.id, n)) =>
          /\ Cardinality({j \in 1..Len(nodes') : nodes'[j].id = PreviewOf(n.id)}) = 1
          /\ Cardinality({j \in 1..Len(edges') :
                 edges'[j].source = n.id /\ edges'[j].target = PreviewOf(n.id)}) = 1
          /\ HasNode(nodes, PreviewOf(n.id)) =>
               /\ Len(nodes') = Len(nodes)
               /\ \A i \in 1..Len(nodes) : nodes'[i].id = nodes[i].id
               /\ edges' = edges
               /\ FindNode(nodes', PreviewOf(n.id)) = FindNode(nodes, PreviewOf(n.id))]_vars

\* preview-image-0 was created for an earlier fan-out's image-0, and the
\* image-0 of a later fan-out has been requested again (it is Completed)
C11_Witness ==
  \E i, j \in 1..Len(nodes) :
     /\ nodes[i].id = <<"image", 0>> /\ nodes[i].status = "completed"
     /\ nodes[j].id = PreviewOf(<<"image", 0>>)
     /\ nodes[j].imageUrl # nodes[i].imageUrl
     /\ Cardinality({k \in 1..Len(nodes) : nodes[k].type = "preview"}) = 1

\* C12: onBranchPreviewRequested with a node id that is not in the node set
\* adds no node, adds no edge and changes no status.
C12_UnknownBranchIsNoOp ==
  [][\A id \in BranchIds :
        (~HasNode(nodes, id) /\ handlePreviewImage(id, PreviewData(id)))
          => (nodes' = nodes /\ edges' = edges)]_vars

PreviewIdx == {i \in 1..Len(nodes) : StartsWith(nodes[i].id, "preview")}

\* C13: after onWorkflowCompleted every Preview node is Completed, and a
\* further onWorkflowCompleted gives the same graph again.
C13_CompleteIdempotent ==
  [][handleWorkflowComplete =>
       /\ \A j \in 1..Len(nodes') :
             (StartsWith(nodes'[j].id, "preview") \/ nodes'[j].type = "preview")
               => nodes'[j].status = "completed"
       /\ completePreviews(nodes') = nodes'
       /\ (\A i \in PreviewIdx : nodes[i].status = "completed") => nodes' = nodes]_vars

C13_Witness ==
  /\ PreviewIdx # {}
  /\ \A i \in PreviewIdx : nodes[i].type = "preview" /\ nodes[i].status = "completed"
  /\ \A i \in ImageResultIdx : nodes[i].status = "completed"

\* C14: onWorkflowCompleted changes no edge, not the number of nodes, and
\* nothing (status, payload, position) of a node that is not a Preview node.
C14_CompleteFrame ==
  [][handleWorkflowComplete =>
       /\ edges' = edges
       /\ Len(nodes') = Len(nodes)
       /\ \A i \in 1..Len(nodes) : nodes[i].type # "preview" => nodes'[i] = nodes[i]]_vars

\* the workflow was completed while a sibling branch was still Active
C14_Witness ==
  /\ \E i \in PreviewIdx : nodes[i].status = "completed"
  /\ \E i \in ImageResultIdx : nodes[i].status = "active"
  /\ StatusOf(nodes, Brand) = "completed"

\* the edges from node a to node b
EdgesFromTo(eds, a, b) == {i \in 1..Len(eds) : eds[i].source = a /\ eds[i].target = b}
IsActiveEdge(e) == e.style = activeEdgeStyle

\* C15: after onDemographicsReceived(payload) ProductInput is Completed, the
\* Demographics node is Active and holds the received payload, and the edge
\* ProductInput -> Demographics is active.
C15_DemographicsReceivedEffect ==
  [][\A data \in DemoPayloads :
        handleDemographicsReceived(data) =>
          /\ StatusOf(nodes', <<"productUrl">>) = "completed"
          /\ \A n \in FindNode(nodes', <<"demographics">>) :
                n.status = "active" /\ n.demographics = data
          /\ HasNode(nodes', <<"demographics">>)
          /\ EdgesFromTo(edges', <<"productUrl">>, <<"demographics">>) # {}
          /\ \A i \in 1..Len(edges') :
                edges'[i].target = <<"demographics">> => IsActiveEdge(edges'[i])]_vars

C15_Witness ==
  /\ demographicsData = "demoA"
  /\ StatusOf(nodes, <<"productUrl">>) = "completed"
  /\ \E n \in FindNode(nodes, <<"demographics">>) :
        n.status = "active" /\ n.demographics = "demoA"
  /\ \A i \in EdgesFromTo(edges, <<"productUrl">>, <<"demographics">>) : IsActiveEdge(edges[i])

\* C16: onDemographicsReceived with a malformed payload (absent, or lacking a
\* required field) is rejected before any mutation: no node status, no payload
\* and no edge changes.
C16_MalformedRejected ==
  [][\A data \in MalformedPayloads :
        handleDemographicsReceived(data) =>
          (nodes' = nodes /\ edges' = edges /\ demographicsData' = demographicsData)]_vars

\* C17: onDemographicsConfirmed(d) sets Demographics to Completed, stores d as
\* the confirmed snapshot, sets BrandStyle to Active with confirmedDemographics
\* = d, and an existing edge of the graph changes to active.
C17_DemographicsConfirmedEffect ==
  [][\A data \in ConfirmPayloads :
        handleDemographicsConfirmed(data) =>
          /\ StatusOf(nodes', <<"demographics">>) = "completed"
          /\ confirmedDemographics' = data
          /\ \A n \in FindNode(nodes', Brand) :
                n.status = "active" /\ n.confirmedDemographics = data
          /\ \E i \in 1..Len(edges) :
                /\ ~IsActiveEdge(edges[i])
                /\ \E j \in 1..Len(edges') :
                      edges'[j].id = edges[i].id /\ IsActiveEdge(edges'[j])]_vars

\* the number a string of decimal digits denotes
RECURSIVE DecimalValue(_)
DecimalValue(str) ==
  IF Len(str) = 0 THEN 0
  ELSE 10 * DecimalValue(SubSeq(str, 1, Len(str) - 1))
         + ((CHOOSE d \in 1..10 : DigitChars[d] = str[Len(str)]) - 1)

\* str is the decimal numeral of n: digits only, no leading zero
IsNumeral(str, n) ==
  /\ Len(str) >= 1
  /\ \A i \in 1..Len(str) : \E d \in 1..10 : DigitChars[d] = str[i]
  /\ Len(str) > 1 => str[1] # "0"
  /\ DecimalValue(str) = n

\* the four forms of a canonical age-range string
FormAll(str) == str = <<"A", "l", "l">>
FormUpTo(str, max) ==
  Len(str) >= 2 /\ str[Len(str)] = "-" /\ IsNumeral(SubSeq(str, 1, Len(str) - 1), max)
FormFrom(str, min) ==
  Len(str) >= 2 /\ str[Len(str)] = "+" /\ IsNumeral(SubSeq(str, 1, Len(str) - 1), min)
FormBetween(str, min, max) ==
  \E k \in 2..(Len(str) - 1) :
     /\ str[k] = "-"
     /\ IsNumeral(SubSeq(str, 1, k - 1), min)
     /\ IsNumeral(SubSeq(str, k + 1, Len(str)), max)

\* out is the canonical string of the pair: it has the form of the pair's
\* case and of no other case
Canonical(out, min, max) ==
  /\ out # JsNull
  /\ LET str == out[1]
         all == FormAll(str)
         upTo == \E n \in 0..MaxAge : FormUpTo(str, n)
         from == \E n \in 0..MaxAge : FormFrom(str, n)
         between == \E a, b \in 0..MaxAge : FormBetween(str, a, b)
     IN /\ Cardinality({f \in {"all", "upTo", "from", "between"} :
                          \/ f = "all" /\ all
                          \/ f = "upTo" /\ upTo
                          \/ f = "from" /\ from
                          \/ f = "between" /\ between}) = 1
        /\ IF min = JsNull /\ max = JsNull THEN all
           ELSE IF min = JsNull THEN FormUpTo(str, max[1])
           ELSE IF max = JsNull THEN FormFrom(str, min[1])
           ELSE FormBetween(str, min[1], max[1])

\* C18: for every pair {min, max} of bounded integers and the open bound the
\* conversion gives "All" (both open), "{max}-" (min open), "{min}+" (max
\* open) or "{min}-{max}" (both closed), and the controller's copy and the
\* Generate node's copy give the same string for every input.
C18_AgeRangeCanonical ==
  /\ (controllerAgeRangeStr # NotRun /\ age_range # JsNull) =>
        Canonical(controllerAgeRangeStr[1], age_range[1].min, age_range[1].max)
  /\ (generateAgeRangeStr # NotRun /\ age_range # JsNull) =>
        Canonical(generateAgeRangeStr[1], age_range[1].min, age_range[1].max)
  /\ (controllerAgeRangeStr # NotRun /\ generateAgeRangeStr # NotRun) =>
        controllerAgeRangeStr = generateAgeRangeStr

\* both copies have converted a closed range with two-digit bounds
C18_Witness ==
  /\ age_range = Some([min |-> Some(10), max |-> Some(12)])
  /\ controllerAgeRangeStr = Some(Some(<<"1", "0", "-", "1", "2">>))
  /\ generateAgeRangeStr = Some(Some(<<"1", "0", "-", "1", "2">>))

IsAdItem(item) == item.type = "ad"
IsTweetItem(item) == item.type = "tweet"
\* the content items a merged feed shows, in the order of their slots
ContentOf(feed) ==
  LET slots == SelectSeq(feed, IsTweetItem)
  IN [i \in 1..Len(slots) |-> slots[i].tweet]
Min(a, b) == IF a <= b THEN a ELSE b

\* C19: with 10 slots, an ad interval of 3 and at least 7 content items the
\* merged feed has its ads exactly at positions 3, 6, 9 and content exactly at
\* positions 1, 2, 4, 5, 7, 8, 10, holding the first 7 content items in their
\* original order; further content items are dropped.
C19_FullFeedLayout ==
  (displayFeed # NotRun /\ Len(feedItems) >= 7) =>
    LET feed == displayFeed[1]
    IN /\ Len(feed) = 10
       /\ \A j \in 1..10 :
             /\ IsAdItem(feed[j]) <=> j \in {3, 6, 9}
             /\ IsTweetItem(feed[j]) <=> j \in {1, 2, 4, 5, 7, 8, 10}
             /\ feed[j].key[2] = j
             /\ IsAdItem(feed[j]) => feed[j].imageUrl = FeedImage
       /\ <<feed[1].tweet, feed[2].tweet, feed[4].tweet, feed[5].tweet, feed[7].tweet,
            feed[8].tweet, feed[10].tweet>> = SubSeq(feedItems, 1, 7)

\* eight content items were merged: the eighth is not shown
C19_Witness ==
  /\ feedItems = <<"t1", "t2", "t2", "t1", "t1", "t1", "t2", "t2">>
  /\ displayFeed # NotRun
  /\ ContentOf(displayFeed[1]) = <<"t1", "t2", "t2", "t1", "t1", "t1", "t2">>

\* C20: for a content sequence of any length k >= 0 the merged feed holds
\* exactly floor(10/3) = 3 ad slots and exactly min(k, 7) content slots, which
\* are the first min(k, 7) content items in their original order.
C20_FeedCounts ==
  displayFeed # NotRun =>
    LET feed == displayFeed[1]
        k == Len(feedItems)
    IN /\ Len(SelectSeq(feed, IsAdItem)) = PREVIEW_COUNT \div AD_INTERVAL
       /\ Len(SelectSeq(feed, IsAdItem)) = 3
       /\ Len(SelectSeq(feed, IsTweetItem)) = Min(k, 7)
       /\ Len(feed) = 3 + Min(k, 7)
       /\ ContentOf(feed) = SubSeq(feedItems, 1, Min(k, 7))

\* the empty content sequence was merged: the feed is the three ads
C20_Witness ==
  /\ feedItems = <<>>
  /\ displayFeed = Some(<<AdItem(3, FeedImage), AdItem(6, FeedImage), AdItem(9, FeedImage)>>)

\* C25: in every reachable state no two nodes share an id and no two edges
\* share an id.
C25_IdsUnique ==
  /\ \A i, j \in 1..Len(nodes) : nodes[i].id = nodes[j].id => i = j
  /\ \A i, j \in 1..Len(edges) : edges[i].id = edges[j].id => i = j

\* two overlapping calls have both been applied, the earlier one last, over a
\* graph that holds a completed Preview node
C25_Witness ==
  /\ Len(calls) = 2 /\ calls[1].state = "ok" /\ calls[2].state = "ok"
  /\ lastApplied.call = 1 /\ lastApplied.n = 2
  /\ \E i \in PreviewIdx : nodes[i].status = "completed"

FixedIds == {<<"productUrl">>, <<"demographics">>, <<"brandStyle">>}

C27_FirstPreviewEffect ==
  [][\A n \in Range(nodes) :
        (/\ StartsWith(n.id, "image")
         /\ ~HasNode(nodes, PreviewOf(n.id))
         /\ handlePreviewImage(n.id, n)) =>
          /\ Len(nodes') = Len(nodes) + 1
          /\ LET p == nodes'[Len(nodes')]
             IN /\ p.id = PreviewOf(n.id)
                /\ p.type = "preview"
                /\ p.status = "active"
                /\ p.imageUrl = n.imageUrl
                /\ p.centerOffset = n.centerOffset
                /\ p.position.y = n.position.y
          /\ \A i \in 1..Len(nodes) :
                nodes'[i] = IF nodes[i].id = n.id
                              THEN [nodes[i] EXCEPT !.status = "completed"]
                              ELSE nodes[i]
          /\ Len(edges') = Len(edges) + 1
          /\ SubSeq(edges', 1, Len(edges)) = edges
          /\ LET e == edges'[Len(edges')]
             IN /\ e.source = n.id
                /\ e.target = PreviewOf(n.id)
                /\ IsActiveEdge(e)]_vars

\* the upper of two siblings has its Preview child, created from it
C27_Witness ==
  \E i, j \in 1..Len(nodes) :
     /\ StartsWith(nodes[i].id, "image")
     /\ nodes[i].status = "completed"
     /\ nodes[i].centerOffset # 0
     /\ nodes[j].id = PreviewOf(nodes[i].id)
     /\ nodes[j].status = "active"
     /\ nodes[j].imageUrl = nodes[i].imageUrl
     /\ nodes[j].centerOffset = nodes[i].centerOffset
     /\ nodes[j].position.y = nodes[i].position.y

\* the siblings and edges of the fan-out of call c with n images are in the graph
ProvisionedBy(c, n) ==
  /\ c # 0
  /\ calls[c].state = "ok"
  /\ FannedOut(n)
  /\ \A i \in ImageResultIdx : nodes[i].imageUrl[1] = c

NotImageNode(n) == ~StartsWith(n.id, "image")
NotImageEdge(e) == ~StartsWith(e.target, "image")

\* a step of an event other than the resolution of call c
OtherEvent(c) ==
  \/ DemographicsReceived
  \/ DemographicsConfirmed
  \/ BrandStyleConfirmed
  \/ PreviewImage
  \/ WorkflowComplete
  \/ DragNode
  \/ \E d \in 1..Len(calls) :
        /\ d # c
        /\ \/ generationFailed(d)
           \/ \E result \in Results(d) : generationSucceeded(d, result)

\* C29: while call c is suspended every change of the graph is the effect of
\* another event, applied to the graph as it is when that event is processed;
\* the resolution of c is applied to the graph those events have left: a
\* success keeps every node other than the image- nodes (brandStyle set to
\* Completed) and every edge not into an image- node, in their order, and a
\* failure changes nothing but the status of brandStyle.
C29_SuspensionFrame ==
  [][\A c \in 1..Len(calls) :
        calls[c].state = "inflight" =>
          /\ (calls'[c].state = "inflight" /\ <<nodes, edges>>' # <<nodes, edges>>)
                => OtherEvent(c)
          /\ (\E result \in Results(c) : generationSucceeded(c, result))
                => /\ SelectSeq(nodes', NotImageNode)
                        = updateNodeStatus(SelectSeq(nodes, NotImageNode), Brand, "completed")
                   /\ SelectSeq(edges', NotImageEdge) = SelectSeq(edges, NotImageEdge)
          /\ generationFailed(c)
                => /\ nodes' = updateNodeStatus(nodes, Brand, "active")
                   /\ edges' = edges]_vars

\* call 1 was suspended while call 2 succeeded and one of call 2's images got
\* its Preview node; call 1 then succeeded and the Preview node is still there
C29_Witness ==
  /\ Len(calls) = 2
  /\ calls[1].state = "ok" /\ calls[2].state = "ok"
  /\ lastApplied.call = 1
  /\ \E i \in PreviewIdx : nodes[i].imageUrl[1] = 2
  /\ \A i \in ImageResultIdx : nodes[i].imageUrl[1] = 1

\* the nodes with the call an image reference came from left out: two calls
\* that return the same result return the same references
EraseCalls(nds) ==
  [i \in 1..Len(nds) |->
     [nds[i] EXCEPT !.imageUrl = IF @ = NoImage THEN @ ELSE <<0, @[2]>>]]

AllImagesActive == \A i \in ImageResultIdx : nodes[i].status = "active"

PayloadsUnchanged ==
  UNCHANGED <<demographicsData, confirmedDemographics, brandStyleData, isGeneratingImages>>

GraphUnchanged == nodes' = nodes /\ edges' = edges /\ PayloadsUnchanged

\* call d repeats the request of call d - 1 and nothing but d is in flight
SameRequest(d) ==
  /\ d > 1 /\ d = Len(calls)
  /\ calls[d].state = "inflight"
  /\ calls[d].style = calls[d - 1].style
  /\ calls[d].demographics = calls[d - 1].demographics
  /\ calls[d].baseY = calls[d - 1].baseY

\* onProductInputSubmitted twice
ReceivedTwice ==
  \A data \in DemoPayloads :
     /\ handleDemographicsReceived(data) => JustReceived(data)'
     /\ (JustReceived(data) /\ handleDemographicsReceived(data)) => GraphUnchanged

\* onDemographicsConfirmed twice
ConfirmedTwice ==
  \A data \in ConfirmPayloads :
     /\ handleDemographicsConfirmed(data) => JustConfirmed(data)'
     /\ (JustConfirmed(data) /\ handleDemographicsConfirmed(data)) => GraphUnchanged

\* onBrandStyleConfirmed twice, before demographics were confirmed
StyleTwiceWithoutDemographics ==
  \A data \in StylePayloads :
     (confirmedDemographics = Null /\ handleBrandStyleConfirmed(data)) =>
        /\ (StatusOf(nodes, Brand) = "active" /\ brandStyleData = data)'
        /\ (StatusOf(nodes, Brand) = "active" /\ brandStyleData = data) => GraphUnchanged

\* onBrandStyleConfirmed twice, the call succeeding with the same result: the
\* first delivery ends with brandStyle Completed and the siblings Active; the
\* second entry changes only brandStyle's status, and the second result gives
\* the nodes and edges of the first delivery again
StyleTwiceSucceeding ==
  /\ \A c \in 1..Len(calls) : \A result \in Results(c) :
        (c = Len(calls) /\ generationSucceeded(c, result)) =>
           (StatusOf(nodes, Brand) = "completed" /\ AllImagesActive
              /\ ~isGeneratingImages)'
  /\ \A data \in StylePayloads :
        (/\ StatusOf(nodes, Brand) = "completed"
         /\ confirmedDemographics # Null
         /\ handleBrandStyleConfirmed(data)) =>
           /\ nodes' = updateNodeStatus(nodes, Brand, "active")
           /\ edges' = edges
  /\ \A d \in 1..Len(calls) : \A result \in Results(d) :
        (/\ SameRequest(d)
         /\ calls[d - 1].state = "ok" /\ lastApplied.call = d - 1
         /\ calls[d].pre = "completed"
         /\ StatusOf(nodes, Brand) = "active" /\ AllImagesActive
         /\ Len(ImagesOf(result)) = lastApplied.n
         /\ generationSucceeded(d, result)) =>
           /\ EraseCalls(nodes') = EraseCalls(updateNodeStatus(nodes, Brand, "completed"))
           /\ edges' = edges
           /\ UNCHANGED <<demographicsData, confirmedDemographics, brandStyleData>>
           /\ ~isGeneratingImages'

\* onBrandStyleConfirmed twice, the call failing both times
StyleTwiceFailing ==
  /\ \A c \in 1..Len(calls) :
        generationFailed(c) => (StatusOf(nodes, Brand) = "active")'
  /\ \A d \in 1..Len(calls) :
        (/\ SameRequest(d)
         /\ calls[d - 1].state = "failed"
         /\ calls[d].pre = "active"
         /\ StatusOf(nodes, Brand) = "active"
         /\ generationFailed(d)) =>
           /\ nodes' = nodes /\ edges' = edges
           /\ UNCHANGED <<demographicsData, confirmedDemographics, brandStyleData>>
           /\ ~isGeneratingImages'

\* onBranchPreviewRequested(b) twice
JustPreviewed(b) ==
  /\ HasNode(nodes, PreviewOf(b))
  /\ StatusOf(nodes, b) = "completed"

PreviewTwice ==
  \A n \in Range(nodes) :
     StartsWith(n.id, "image") =>
       /\ handlePreviewImage(n.id, n) => JustPreviewed(n.id)'
       /\ (JustPreviewed(n.id) /\ handlePreviewImage(n.id, n)) => GraphUnchanged

\* onWorkflowCompleted twice
CompleteTwice ==
  /\ handleWorkflowComplete => (\A i \in PreviewIdx : nodes[i].status = "completed")'
  /\ ((\A i \in PreviewIdx : nodes[i].status = "completed") /\ handleWorkflowComplete)
        => GraphUnchanged

\* C24: each of the five transitions, delivered a second time in succession
\* (the generation call returning the same result), leaves the node set, the
\* edge set, the statuses and the payloads as the first delivery left them.
C24_TransitionsIdempotent ==
  [][/\ ReceivedTwice
     /\ ConfirmedTwice
     /\ StyleTwiceWithoutDemographics
     /\ StyleTwiceSucceeding
     /\ StyleTwiceFailing
     /\ PreviewTwice
     /\ CompleteTwice]_vars

\* brand-style confirmation was delivered twice with the same request and both
\* calls returned two images: brandStyle is Completed with two Active siblings
C24_Witness ==
  /\ Len(calls) = 2
  /\ calls[1].state = "ok" /\ calls[2].state = "ok"
  /\ calls[2].pre = "completed"
  /\ calls[2].style = calls[1].style /\ calls[2].baseY = calls[1].baseY
  /\ calls[2].demographics = calls[1].demographics
  /\ lastApplied.call = 2 /\ lastApplied.n = 2
  /\ StatusOf(nodes, Brand) = "completed"
  /\ FannedOut(2) /\ AllImagesActive
  /\ PreviewIdx = {}

\* C21: a merge called with an adInterval that is 0 or negative is rejected
\* and returns no display sequence.
C21_NonPositiveIntervalRejected ==
  (adIntervalArg # JsNull /\ adIntervalArg[1] <= 0) => displayFeed = NotRun

\* C22: after every autoscroll tick the accumulator p satisfies
\* 0 <= p < singleHeight, for the single-copy height the tick read.
C22_AccumulatorInRange ==
  [][\A l \in 1..Len(loops) : \A sinceFrame \in FrameTimes : \A height \in Heights :
        animate(l, sinceFrame, height) =>
          (0 <= scrollPosition' /\ scrollPosition' < height)]_vars

\* a loop with a callback still to come
Live(lp) == lp.timer = "pending" \/ lp.frame = "requested"

\* C23: a loop whose cleanup has run has no timeout and no frame pending, its
\* timeout never fires and animate never runs for it again; and while the
\* Preview node is torn down, Pending, loading or in error, no loop is live.
C23_NoTickAfterCancel ==
  [][/\ \A l \in 1..Len(loops) :
           loops[l].cleaned =>
             /\ ~Live(loops[l])
             /\ ~(\E sinceFrame \in FrameTimes : \E height \in Heights :
                     animate(l, sinceFrame, height))
             /\ loops'[l] = loops[l]
     /\ \A l \in 1..Len(loops') :
           (loops'[l].cleaned \/ ~mounted' \/ statusClass' = "pending" \/ loading'
              \/ error' # JsNull)
             => ~Live(loops'[l])]_vars

\* three loops were cancelled: one between its start delay and its first tick,
\* one before its delay had elapsed, one between two ticks
C23_Witness ==
  /\ Len(loops) = 3
  /\ \A l \in 1..3 : loops[l].cleaned
  /\ loops[1].timer = "fired" /\ ~loops[1].ticked /\ loops[1].frame = "cancelled"
  /\ loops[2].timer = "cleared" /\ loops[2].elapsed < START_DELAY
  /\ loops[3].ticked /\ loops[3].frame = "cancelled"
  /\ scrollPosition > 0

\* C30: animate runs for a loop only after the loop's start delay has elapsed
\* and its timeout has fired; the frame of the first tick is requested by the
\* timeout callback and the frame of every later tick by the tick before it.
C30_NoTickBeforeDelay ==
  [][\A l \in 1..Len(loops) :
        /\ (\E sinceFrame \in FrameTimes : \E height \in Heights :
               animate(l, sinceFrame, height))
             => /\ loops[l].elapsed >= START_DELAY
                /\ loops[l].timer = "fired"
                /\ loops[l].requestedBy = IF loops[l].ticked THEN "animate" ELSE "timeout"
        /\ (loops[l].frame # "requested" /\ loops'[l].frame = "requested")
             => /\ loops[l].timer = "pending"
                /\ loops[l].elapsed >= START_DELAY
                /\ loops'[l].timer = "fired"]_vars

\* a loop has made its first tick and a later one, and its next frame is requested
C30_Witness ==
  \E l \in 1..Len(loops) :
     /\ loops[l].ticked /\ loops[l].requestedBy = "animate"
     /\ loops[l].frame = "requested"
     /\ loops[l].elapsed = START_DELAY
     /\ scrollPosition > scrollSpeed

\* C31: a Preview node starts loading the feed exactly once per activation. A
\* load starts in exactly the steps in which the status leaves Pending, one load
\* a step; while the status is not Pending the load started last is the only one
\* not cancelled; a change of status between Active and Completed starts no load
\* and leaves the loads and the feed items as they were.
C31_LoadOncePerActivation ==
  /\ [](mounted =>
          /\ \A k \in 1..Len(loads) : ~loads[k].cancelled => k = Len(loads)
          /\ IF statusClass # "pending"
               THEN currentLoad = Len(loads) /\ currentLoad > 0
                    /\ ~loads[currentLoad].cancelled
               ELSE currentLoad = 0 /\ \A k \in 1..Len(loads) : loads[k].cancelled)
  /\ [][/\ Len(loads') > Len(loads) =>
             /\ statusClass = "pending" /\ statusClass' # "pending"
             /\ loads' = Append(loads, newLoad)
        /\ (statusClass = "pending" /\ statusClass' # "pending") =>
             Len(loads') = Len(loads) + 1
        /\ (statusClass # "pending" /\ statusClass' # "pending"
            /\ statusClass' # statusClass) =>
             loads' = loads /\ currentLoad' = currentLoad /\ feedItems' = feedItems
                            /\ displayFeed' = displayFeed]_vars

\* the node was mounted Active, its only load delivered tweets, and it was
\* completed afterwards or meanwhile: the tweets are still there
C31_Witness ==
  /\ mounted
  /\ statusClass = "completed"
  /\ Len(loads) = 1
  /\ loads[1].outcome = "items"
  /\ feedItems # <<>>
  /\ Len(loops) = 1

\* C32: a feed load that goes on or resolves, with data or with an error, after
\* its Preview node was torn down or returned to Pending (it is no longer the
\* load of the effect's current run) changes none of feedItems, error and loading.
C32_CancelledLoadWritesNothing ==
  [][\A k \in 1..Len(loads) :
        (k # currentLoad /\ loads'[k] # loads[k]) =>
           /\ loads[k].cancelled
           /\ feedItems' = feedItems
           /\ displayFeed' = displayFeed
           /\ error' = error
           /\ loading' = loading]_vars

\* a node mounted Active was torn down while its load was under way, and the
\* load delivered tweets afterwards: no state was written, no loop was started
C32_Witness ==
  /\ ~mounted
  /\ Len(loads) = 1
  /\ loads[1].cancelled
  /\ loads[1].outcome = "items"
  /\ feedItems = <<>>
  /\ loading
  /\ loops = <<>>

\* C33: every feed load terminates, and one that is not cancelled ends with
\* loading = false and exactly one outcome: feed items set and no error, or an
\* error set and the feed items left empty. The fallback location is requested
\* only after a primary response that is not ok, and a load ends in error only
\* when both responses are not ok or an awaited promise of the request rejects.
C33_LoadTerminates ==
  /\ [](\A k \in 1..Len(loads) :
          (loads[k].stage = "done" /\ ~loads[k].cancelled) =>
             /\ ~loading
             /\ \/ /\ loads[k].outcome = "items"
                   /\ loads[k].res = "ok"
                   /\ error = JsNull
                   /\ feedItems \in LoadedFeeds
                \/ /\ loads[k].outcome = "error"
                   /\ error # JsNull
                   /\ feedItems = <<>>)
  /\ [][\A k \in 1..Len(loads) :
          /\ (loads[k].stage # "fallback" /\ loads'[k].stage = "fallback") =>
               /\ loads[k].stage = "primary"
               /\ loads'[k].res = "notok"
          /\ (loads[k].outcome = "none" /\ loads'[k].outcome = "error") =>
               \/ loads[k].stage \in {"primary", "fallback"}
                    /\ loads'[k].res = "rejected"
               \/ loads[k].stage = "fallback" /\ loads[k].res = "notok"
                    /\ loads'[k].res = "notok"
               \/ loads[k].stage = "text" /\ loads[k].res = "ok"
                    /\ loads'[k].res = "ok"]_vars
  /\ \A k \in 1..MaxLoads :
       (k <= Len(loads)) ~> /\ k <= Len(loads)
                            /\ loads[k].stage = "done"
                            /\ loads[k].cancelled \/ ~loading

\* the load of a mounted node got a response that is not ok from both locations:
\* it has ended, the error is shown and nothing is loading
C33_Witness ==
  /\ mounted
  /\ currentLoad > 0
  /\ loads[currentLoad].stage = "done"
  /\ loads[currentLoad].outcome = "error"
  /\ loads[currentLoad].res = "notok"
  /\ error = LoadError
  /\ ~loading
  /\ feedItems = <<>>

\* C40: at most one autoscroll loop of a Preview node is live at any time, and
\* it is the loop of the effect's current run; when a loop is started, every
\* loop before it has been cleaned up and has neither a delay nor a frame
\* pending; and only the loop of the current run advances the accumulator.
C40_OneLoopLive ==
  /\ [](/\ Cardinality({l \in 1..Len(loops) : Live(loops[l])}) <= 1
        /\ \A l \in 1..Len(loops) :
              /\ Live(loops[l]) => l = currentLoop
              /\ l # currentLoop => loops[l].cleaned)
  /\ [][/\ Len(loops') > Len(loops) =>
             /\ \A l \in 1..(Len(loops') - 1) :
                   loops'[l].cleaned /\ ~Live(loops'[l])
             /\ loops'[Len(loops')] \in {newLoop, autoscrollCleanup(<<newLoop>>, 1)[1]}
        /\ scrollPosition' # scrollPosition =>
             /\ currentLoop > 0
             /\ loops'[currentLoop].ticked
             /\ \A l \in 1..Len(loops) : l # currentLoop => loops'[l] = loops[l]]_vars

\* a loop advanced the accumulator and was cancelled when the node returned to
\* Pending; the loop started at the next activation was cancelled during its
\* delay when the load began; the loop started after the load is the live one
\* and has advanced the same accumulator
C40_Witness ==
  /\ Len(loops) = 3
  /\ currentLoop = 3
  /\ loops[1].ticked /\ loops[1].cleaned /\ loops[1].frame = "cancelled"
  /\ ~loops[2].ticked /\ loops[2].cleaned /\ loops[2].timer = "cleared"
  /\ loops[3].ticked /\ Live(loops[3])
  /\ scrollPosition > 0

\* C37: in the feed a Preview node displays (it is mounted, not Pending, not
\* loading and shows no error), the item at 1-based index j of the merged feed
\* is an ad if and only if j is a multiple of 3.
C37_EveryThirdCardIsAd ==
  (mounted /\ statusClass # "pending" /\ ~loading /\ error = JsNull
     /\ displayFeed # NotRun) =>
    \A j \in 1..Len(displayFeed[1]) :
       IsAdItem(displayFeed[1][j]) <=> (j % AD_INTERVAL = 0)

\* C38: onBrandStyleConfirmed invoked while no confirmed demographics snapshot
\* exists issues no generation request and leaves every node, the BrandStyle
\* node and its status included, and every edge as they were.
C38_NoSnapshotNoChange ==
  [][\A data \in StylePayloads :
        (confirmedDemographics = Null /\ handleBrandStyleConfirmed(data)) =>
           /\ calls' = calls
           /\ nodes' = nodes
           /\ edges' = edges]_vars

\* C39: the pipeline order is respected in every reachable state: Demographics
\* is Active or Completed only if ProductInput is Completed, BrandStyle is
\* Active or Completed only if Demographics is Completed, an ImageResult node
\* exists only if BrandStyle is Completed, and a Preview node exists only if
\* its parent ImageResult node exists and is Completed.
C39_PipelineOrder ==
  /\ StatusOf(nodes, <<"demographics">>) \in {"active", "completed"} =>
       StatusOf(nodes, <<"productUrl">>) = "completed"
  /\ StatusOf(nodes, Brand) \in {"active", "completed"} =>
       StatusOf(nodes, <<"demographics">>) = "completed"
  /\ ImageResultIdx # {} => StatusOf(nodes, Brand) = "completed"
  /\ \A i \in PreviewIdx :
        /\ HasNode(nodes, Tail(nodes[i].id))
        /\ StatusOf(nodes, Tail(nodes[i].id)) = "completed"

\* C35: in every reachable state each Preview node preview-b has a parent node
\* b of kind ImageResult in the node set, and the image reference of the
\* Preview node equals the one b holds, also after a later fan-out has
\* replaced the ImageResult nodes.
C35_PreviewMatchesParent ==
  \A i \in PreviewIdx :
     \E j \in ImageResultIdx :
        /\ nodes[j].id = Tail(nodes[i].id)
        /\ nodes[j].imageUrl = nodes[i].imageUrl

\* C36: isGeneratingImages is true in exactly the states in which at least one
\* generation call of onBrandStyleConfirmed is in flight, also when two
\* invocations overlap; so it is false once every issued call has resolved.
C36_FlagTracksCalls ==
  isGeneratingImages <=> (\E c \in 1..Len(calls) : calls[c].state = "inflight")

InFlight == {r \in 1..Len(requests) : requests[r].state = "inflight"}

\* C34: the ProductInput node delivers onDemographicsReceived only in the step
\* in which a request with a non-blank product URL and prompt ends with a
\* successful response; a submit with an empty field and a failed request leave
\* the controller's state and the graph as they were, ProductInput Active; at
\* most one request is in flight, and none is issued once ProductInput is
\* Completed.
C34_SubmitDelivery ==
  /\ [](/\ Cardinality(InFlight) <= 1
        /\ isLoading <=> InFlight # {}
        /\ StatusOf(nodes, <<"productUrl">>) = "completed" => InFlight = {}
        /\ \A r \in 1..Len(requests) :
              trim(requests[r].product_url) # <<>> /\ trim(requests[r].prompt) # <<>>)
  /\ [][/\ (demographicsData' # demographicsData
             \/ StatusOf(nodes', <<"productUrl">>) # StatusOf(nodes, <<"productUrl">>)
             \/ (StatusOf(nodes', <<"demographics">>) = "active"
                  /\ StatusOf(nodes, <<"demographics">>) # "active")) =>
               \E r \in InFlight :
                  /\ requests'[r].state = "ok"
                  /\ \E data \in DemoPayloads : handleDemographicsReceived(data)
        /\ (\/ \E r \in InFlight : requests'[r].state \notin {"inflight", "ok"}
            \/ (submitError' # JsNull /\ submitError' # submitError)) =>
               /\ UNCHANGED canvasVars
               /\ StatusOf(nodes', <<"productUrl">>) = "active"
        /\ Len(requests') > Len(requests) =>
               /\ InFlight = {}
               /\ StatusOf(nodes, <<"productUrl">>) = "active"
               /\ Len(requests') = Len(requests) + 1]_vars

\* a first request failed, the user submitted again and the second request
\* delivered the demographics
C34_Witness ==
  /\ Len(requests) = 2
  /\ requests[1].state = "notok"
  /\ requests[2].state = "ok"
  /\ StatusOf(nodes, <<"productUrl">>) = "completed"
  /\ demographicsData # Null
  /\ ~isLoading
====
